---------------------------- MODULE Spec2Model ----------------------------
(***************************************************************************)
(* A model of awkward/array/jagged.py: the JaggedArray object (starts,     *)
(* stops, content, the three caches and the validity flag), its setters    *)
(* and cached reads, and the operations built on them (_tojagged,          *)
(* __getitem__ with a jagged index, __array_ufunc__, flatten, the          *)
(* reductions).                                                            *)
(*                                                                         *)
(* Arrays are modelled as records [ndim, dtype, data]: data is the flat    *)
(* sequence of items, positions are the 0-based numpy positions, so item   *)
(* j of an array a is a.data[j+1].  A raised exception is the "err" field  *)
(* of a call's result.                                                     *)
(***************************************************************************)
EXTENDS Integers, Sequences, FiniteSets, TLC

VARIABLES starts, stops, content, offsets, counts, parents, isvalid, pc, arg, ret

vars == <<starts, stops, content, offsets, counts, parents, isvalid, pc, arg, ret>>

(***************************************************************************)
(* Bounds of the model.                                                    *)
(***************************************************************************)
MaxRows == 2        \* rows of a view in the operations' specification
MaxLen == 3         \* items of a content buffer
MaxIdx == 2         \* items of the content of an integer jagged index
MaxSet == 2         \* items of an array handed to a setter or constructor
MaxOff == 1         \* largest value in an array handed to a setter

(***************************************************************************)
(* numpy arrays and the numpy primitives the code uses.                    *)
(***************************************************************************)
Arr(nd, dt, d) == [ndim |-> nd, dtype |-> dt, data |-> d]

None == Arr(-1, "none", <<>>)

Int1(d) == Arr(1, "int", d)

Min2(a, b) == IF a < b THEN a ELSE b

Max2(a, b) == IF a > b THEN a ELSE b

SetMax(S) == CHOOSE x \in S : \A y \in S : y <= x

SetMin(S) == CHOOSE x \in S : \A y \in S : x <= y

SeqRange(s) == {s[k] : k \in DOMAIN s}

\* s[a:b] for 0 <= a, 0 <= b: numpy clips a slice to the array
Sl(s, a, b) ==
    LET hi == Min2(b, Len(s))
    IN IF a >= hi THEN <<>> ELSE SubSeq(s, a + 1, hi)

\* s[:-1]
ButLast(s) == IF s = <<>> THEN <<>> ELSE SubSeq(s, 1, Len(s) - 1)

\* s[1:]
Rest(s) == IF s = <<>> THEN <<>> ELSE Tail(s)

\* numpy.array_equal: same shape and same items
ArrayEqual(a, b) == a = b

\* a[idx] for an integer index array: every index within [-len, len)
FancyOK(s, idx) == \A k \in DOMAIN idx : -Len(s) <= idx[k] /\ idx[k] < Len(s)

FancyGet(s, idx) ==
    [k \in DOMAIN idx |-> s[(IF idx[k] < 0 THEN idx[k] + Len(s) ELSE idx[k]) + 1]]

\* a[mask] for a boolean mask of a's length: the items at the positions the
\* mask keeps, in order
Kept(p) == p[2]

MaskGet(s, m) ==
    LET kept == SelectSeq([k \in DOMAIN s |-> <<s[k], m[k]>>], Kept)
    IN [j \in DOMAIN kept |-> kept[j][1]]

Arange(n) == [k \in 1..n |-> k - 1]

\* a[lo:hi] = src: the source must have the slice's length, or one item
SliceAssignOK(a, lo, hi, src) ==
    LET n == Len(Sl(a, lo, hi)) IN Len(src) = n \/ Len(src) = 1

SliceAssign(a, lo, hi, src) ==
    [j \in DOMAIN a |->
        IF lo <= j - 1 /\ j - 1 < Min2(hi, Len(a))
        THEN (IF Len(src) = 1 THEN src[1] ELSE src[j - lo])
        ELSE a[j]]

\* a[idx] = src for an integer index array: the last write to a position wins
FancyAssignOK(a, idx, src) ==
    /\ FancyOK(a, idx)
    /\ (Len(src) = Len(idx) \/ Len(src) = 1)

FancyAssign(a, idx, src) ==
    [j \in DOMAIN a |->
        LET hits == {k \in DOMAIN idx :
                        (IF idx[k] < 0 THEN idx[k] + Len(a) ELSE idx[k]) = j - 1}
        IN IF hits = {} THEN a[j]
           ELSE (IF Len(src) = 1 THEN src[1] ELSE src[SetMax(hits)])]

\* numpy.argsort(kind="mergesort"): stable, ties keep their original order
ArgsortStable(p) ==
    [k \in DOMAIN p |->
        (CHOOSE i \in DOMAIN p :
            Cardinality({j \in DOMAIN p :
                p[j] < p[i] \/ (p[j] = p[i] /\ j < i)}) = k - 1) - 1]

(***************************************************************************)
(* awkward.util: the index conversions of the four representations.        *)
(***************************************************************************)
RECURSIVE counts2offsetsFrom(_, _, _)
counts2offsetsFrom(c, k, acc) ==
    IF k > Len(c) THEN <<>>
    ELSE <<acc + c[k]>> \o counts2offsetsFrom(c, k + 1, acc + c[k])

\* counts -> offsets: prefix sum with a leading 0
counts2offsets(c) == <<0>> \o counts2offsetsFrom(c, 1, 0)

\* offsets -> parents: parents[offsets[i]:offsets[i+1]] = i, over n items
offsets2parents(o, n) ==
    [j \in 1..n |->
        LET rows == {i \in 1..(Len(o) - 1) : o[i] <= j - 1 /\ j - 1 < o[i + 1]}
        IN IF rows = {} THEN -1 ELSE SetMax(rows) - 1]

\* starts/stops -> parents: all -1, then rows in index order, later rows
\* overwrite earlier ones
startsstops2parents(st, sp, n) ==
    [j \in 1..n |->
        LET rows == {i \in DOMAIN st : st[i] <= j - 1 /\ j - 1 < sp[i]}
        IN IF rows = {} THEN -1 ELSE SetMax(rows) - 1]


\* starts and stops built as two slices of one offsets buffer.  The arrays
\* handed to the constructor and to the setters are separate buffers.
offsetsaliased(st, sp) == FALSE

(***************************************************************************)
(* Views and results.  A view is [starts, stops, content, dtype] (the      *)
(* data of one-dimensional integer starts and stops and of the content);   *)
(* a call's result is [err, starts, stops, content].                       *)
(***************************************************************************)
View(st, sp, c, dt) == [starts |-> st, stops |-> sp, content |-> c, dtype |-> dt]

Ok(st, sp, c) == [err |-> "none", starts |-> st, stops |-> sp, content |-> c]

Fail(e) == [err |-> e, starts |-> <<>>, stops |-> <<>>, content |-> <<>>]

NoCall == Fail("nocall")

\* stops - starts, for starts and stops of one length
Diff(sp, st) == [i \in DOMAIN st |-> sp[i] - st[i]]

\* numpy.array_equal(starts[1:], stops[:-1])
Contiguous(st, sp) == ArrayEqual(Rest(st), ButLast(sp))

\* (starts[:-1] < starts[1:]).all()
Increasing(st) == \A i \in 1..(Len(st) - 1) : st[i] < st[i + 1]

NonNeg(p) == [k \in DOMAIN p |-> p[k] >= 0]

\* the parents of a view with an empty parents cache
ParentsOf(st, sp, n) ==
    IF offsetsaliased(st, sp) \/ Contiguous(st, sp)
    THEN (IF sp = <<>> THEN Fail("IndexError")
          ELSE Ok(<<>>, <<>>, offsets2parents(st \o <<sp[Len(sp)]>>, n)))
    ELSE Ok(<<>>, <<>>, startsstops2parents(st, sp, n))

\* _tojagged, the source side: the items of the rows in gather order
TojaggedGather(v) ==
    LET st == v.starts
        sp == v.stops
        c  == v.content
    IN IF offsetsaliased(st, sp) \/ Contiguous(st, sp)
       THEN Ok(<<>>, <<>>, Sl(c, st[1], sp[Len(sp)] + 1))
       ELSE LET pr == ParentsOf(st, sp, Len(c))
                p  == pr.content
                idx == IF Increasing(st)
                       THEN MaskGet(p, NonNeg(p))
                       ELSE MaskGet(ArgsortStable(p), NonNeg(p))
            IN IF pr.err # "none" THEN Fail(pr.err)
               ELSE IF ~FancyOK(c, idx) THEN Fail("IndexError")
               ELSE Ok(<<>>, <<>>, FancyGet(c, idx))

\* _tojagged, the destination side: the gathered items written into out
TojaggedScatter(ts, tp, out, src) ==
    IF offsetsaliased(ts, tp) \/ Contiguous(ts, tp)
    THEN (IF SliceAssignOK(out, ts[1], tp[Len(tp)] + 1, src)
          THEN Ok(ts, tp, SliceAssign(out, ts[1], tp[Len(tp)] + 1, src))
          ELSE Fail("ValueError"))
    ELSE LET pr == ParentsOf(ts, tp, Len(out))
             p  == pr.content
             idx == IF Increasing(ts)
                    THEN MaskGet(p, NonNeg(p))
                    ELSE MaskGet(ArgsortStable(p), NonNeg(p))
         IN IF pr.err # "none" THEN Fail(pr.err)
            ELSE IF ~FancyOK(out, idx) THEN Fail("IndexError")
            ELSE IF ~(Len(src) = Len(idx) \/ Len(src) = 1) THEN Fail("ValueError")
            ELSE Ok(ts, tp, FancyAssign(out, idx, src))

TojaggedNoFastPath(v, ts, tp) ==
    IF Len(ts) # Len(tp) \/ ~ArrayEqual(Diff(tp, ts), Diff(v.stops, v.starts))
    THEN Fail("IndexError")
    ELSE IF tp = <<>> THEN Fail("ValueError")
    ELSE LET zeros == [j \in 1..SetMax(SeqRange(tp)) |-> 0]
             src == TojaggedGather(v)
         IN IF src.err # "none" THEN src
            ELSE TojaggedScatter(ts, tp, zeros, src.content)

\* _tojagged(starts, stops, copy=False) with both sides of the target given
Tojagged(v, ts, tp) ==
    IF Len(ts) # Len(tp) \/ ~ArrayEqual(Diff(tp, ts), Diff(v.stops, v.starts))
    THEN Fail("IndexError")
    ELSE IF ArrayEqual(ts, v.starts) /\ ArrayEqual(tp, v.stops)
    THEN Ok(ts, tp, v.content)
    ELSE IF tp = <<>> THEN Fail("ValueError")
    ELSE LET zeros == [j \in 1..SetMax(SeqRange(tp)) |-> 0]
             src == TojaggedGather(v)
         IN IF src.err # "none" THEN src
            ELSE TojaggedScatter(ts, tp, zeros, src.content)

\* _tojagged(starts=ts): stops = starts + counts, and each row must end
\* before the next one starts
TojaggedStarts(v, ts) ==
    IF Len(v.starts) # Len(ts) THEN Fail("IndexError")
    ELSE LET tp == [i \in DOMAIN ts |-> ts[i] + (v.stops[i] - v.starts[i])]
         IN IF \E i \in 1..(Len(ts) - 1) : tp[i] > ts[i + 1]
            THEN Fail("IndexError")
            ELSE Tojagged(v, ts, tp)

\* _tojagged(stops=tp): starts = stops - counts, the same test, and the
\* starts setter of the copy refuses a negative start
TojaggedStops(v, tp) ==
    IF Len(v.starts) # Len(tp) THEN Fail("IndexError")
    ELSE LET ts == [i \in DOMAIN tp |-> tp[i] - (v.stops[i] - v.starts[i])]
         IN IF \E i \in 1..(Len(ts) - 1) : tp[i] > ts[i + 1]
            THEN Fail("IndexError")
            ELSE IF \E i \in DOMAIN ts : ts[i] < 0 THEN Fail("ValueError")
            ELSE Tojagged(v, ts, tp)

\* _canuseoffset, for one-dimensional starts
Canuseoffset(v) == offsetsaliased(v.starts, v.stops) \/ Contiguous(v.starts, v.stops)

\* flatten()
Flatten(v) ==
    IF Canuseoffset(v)
    THEN (IF v.starts = <<>> THEN Fail("IndexError")
          ELSE Ok(<<>>, <<>>, Sl(v.content, v.starts[1], v.stops[Len(v.stops)])))
    ELSE LET o == counts2offsets(Diff(v.stops, v.starts))
             out == Tojagged(v, ButLast(o), Rest(o))
         IN IF out.err # "none" THEN out ELSE Ok(<<>>, <<>>, out.content)

(***************************************************************************)
(* Item arithmetic.  int8 and uint8 items wrap; float64 items are the      *)
(* integers they hold exactly, plus the two infinities and NaN.            *)
(***************************************************************************)
PInf == 1000

NInf == -PInf

NaN == PInf + PInf

Int8Max == 127

Int8Min == -Int8Max - 1

Wrap8(x) == ((x - Int8Min) % (2 * (Int8Max + 1))) + Int8Min

WrapU8(x) == x % (2 * (Int8Max + 1))

FAdd(a, b) ==
    IF a = NaN \/ b = NaN THEN NaN
    ELSE IF (a = PInf /\ b = NInf) \/ (a = NInf /\ b = PInf) THEN NaN
    ELSE IF a = PInf \/ b = PInf THEN PInf
    ELSE IF a = NInf \/ b = NInf THEN NInf
    ELSE a + b

FNeg(a) == IF a = NaN THEN NaN ELSE -a

FMul(a, b) ==
    IF a = NaN \/ b = NaN THEN NaN
    ELSE IF a \in {PInf, NInf} \/ b \in {PInf, NInf}
    THEN (IF a = 0 \/ b = 0 THEN NaN
          ELSE IF (a > 0) = (b > 0) THEN PInf ELSE NInf)
    ELSE a * b

Add(dt, a, b) ==
    IF dt = "float64" THEN FAdd(a, b)
    ELSE IF dt = "long" THEN a + b
    ELSE IF dt = "uint8" THEN WrapU8(a + b)
    ELSE Wrap8(a + b)

Sub(dt, a, b) ==
    IF dt = "float64" THEN FAdd(a, FNeg(b))
    ELSE IF dt = "uint8" THEN WrapU8(a - b)
    ELSE Wrap8(a - b)

Mul(dt, a, b) ==
    IF dt = "float64" THEN FMul(a, b)
    ELSE IF dt = "long" THEN a * b
    ELSE IF dt = "uint8" THEN WrapU8(a * b)
    ELSE Wrap8(a * b)

\* numpy.minimum and numpy.maximum propagate NaN
Minimum(a, b) == IF a = NaN \/ b = NaN THEN NaN ELSE Min2(a, b)

Maximum(a, b) == IF a = NaN \/ b = NaN THEN NaN ELSE Max2(a, b)

BinOp(op, dt, a, b) ==
    CASE op = "sum" -> Add(dt, a, b)
      [] op = "prod" -> Mul(dt, a, b)
      [] op = "min" -> Minimum(a, b)
      [] op = "max" -> Maximum(a, b)

\* a reduction's value for an empty row
Identity(op, dt) ==
    CASE op = "sum" -> 0
      [] op = "prod" -> 1
      [] op = "min" -> (IF dt = "float64" THEN PInf
                        ELSE IF dt = "uint8" THEN 2 * Int8Max + 1 ELSE Int8Max)
      [] op = "max" -> (IF dt = "float64" THEN NInf
                        ELSE IF dt = "uint8" THEN 0 ELSE Int8Min)

\* the reduction of the items lo..hi of a sequence, lo <= hi: the two halves
\* are reduced and combined (up to three items this is the order left to
\* right)
RECURSIVE FoldRange(_, _, _, _, _)
FoldRange(op, dt, s, lo, hi) ==
    IF lo = hi THEN s[lo]
    ELSE LET mid == (lo + hi) \div 2
         IN BinOp(op, dt, FoldRange(op, dt, s, lo, mid), FoldRange(op, dt, s, mid + 1, hi))

\* the reduction of a non-empty sequence
Fold(op, dt, s) == FoldRange(op, dt, s, 1, Len(s))

\* ufunc.reduceat(a, idx): every index must be a position of a
ReduceatOK(a, idx) == \A k \in DOMAIN idx : 0 <= idx[k] /\ idx[k] < Len(a)

Reduceat(op, dt, a, idx) ==
    [k \in DOMAIN idx |->
        IF k < Len(idx)
        THEN (IF idx[k] < idx[k + 1]
              THEN Fold(op, dt, Sl(a, idx[k], idx[k + 1]))
              ELSE a[idx[k] + 1])
        ELSE Fold(op, dt, Sl(a, idx[k], Len(a)))]

\* numpy.cumsum into an array of the content's dtype, after a leading 0
RECURSIVE CumsumFrom(_, _, _, _)
CumsumFrom(dt, c, k, acc) ==
    IF k > Len(c) THEN <<>>
    ELSE <<Add(dt, acc, c[k])>> \o CumsumFrom(dt, c, k + 1, Add(dt, acc, c[k]))

Contentsum(dt, c) == <<0>> \o CumsumFrom(dt, c, 1, 0)

(***************************************************************************)
(* The reductions.                                                         *)
(***************************************************************************)
\* the dtype a ufunc's reduce, accumulate and reduceat compute in when none
\* is given: add and multiply over an integer narrower than a long use a
\* long (here without a bound), every other reduction the array's dtype
ReduceDtype(op, dt) ==
    IF op \in {"sum", "prod"} /\ dt # "float64" THEN "long" ELSE dt

ReduceOffsetKeepsDtype(op, v) ==
    IF v.starts = <<>> THEN Fail("IndexError")
    ELSE LET a == Sl(v.content, v.starts[1], v.stops[Len(v.stops)])
             o == v.starts \o <<v.stops[Len(v.stops)]>>
             idx == ButLast(o)
         IN IF ~ReduceatOK(a, idx) THEN Fail("IndexError")
            ELSE LET out == Reduceat(op, v.dtype, a, idx)
                 IN Ok(<<>>, <<>>,
                       [i \in DOMAIN out |->
                           IF o[i + 1] = o[i] THEN Identity(op, v.dtype) ELSE out[i]])

\* the contiguous fast path of sum, prod, min and max: reduceat over the
\* content slice at offsets[:-1], empty rows set to the identity
ReduceOffset(op, v) ==
    IF v.starts = <<>> THEN Fail("IndexError")
    ELSE LET a == Sl(v.content, v.starts[1], v.stops[Len(v.stops)])
             o == v.starts \o <<v.stops[Len(v.stops)]>>
             idx == ButLast(o)
         IN IF ~ReduceatOK(a, idx) THEN Fail("IndexError")
            ELSE LET out == Reduceat(op, ReduceDtype(op, v.dtype), a, idx)
                 IN Ok(<<>>, <<>>,
                       [i \in DOMAIN out |->
                           IF o[i + 1] = o[i] THEN Identity(op, v.dtype) ELSE out[i]])

\* the general path of sum: differences of the running sum of the content
SumGeneral(v) ==
    LET cs == Contentsum(v.dtype, v.content)
    IN IF \E i \in DOMAIN v.starts :
             v.starts[i] # v.stops[i] /\ (v.stops[i] > Len(v.content) \/ v.starts[i] > Len(v.content))
       THEN Fail("IndexError")
       ELSE Ok(<<>>, <<>>,
               [i \in DOMAIN v.starts |->
                   IF v.starts[i] # v.stops[i]
                   THEN Sub(v.dtype, cs[v.stops[i] + 1], cs[v.starts[i] + 1])
                   ELSE 0])

\* the general path of prod, min and max: one reduction per row with
\* start # stop (numpy's prod of no items is 1, its amin and amax raise)
RowsGeneral(op, v) ==
    LET row(i) == Sl(v.content, v.starts[i], v.stops[i])
    IN IF op # "prod" /\ \E i \in DOMAIN v.starts : v.starts[i] # v.stops[i] /\ row(i) = <<>>
       THEN Fail("ValueError")
       ELSE Ok(<<>>, <<>>,
               [i \in DOMAIN v.starts |->
                   IF v.starts[i] = v.stops[i] THEN Identity(op, v.dtype)
                   ELSE IF op # "prod" THEN Fold(op, v.dtype, row(i))
                   ELSE IF row(i) = <<>> THEN 1
                   ELSE Mul(v.dtype, 1, Fold(op, v.dtype, row(i)))])

\* sum(), prod(), min(), max()
Reduce(op, v) ==
    IF Canuseoffset(v) THEN ReduceOffset(op, v)
    ELSE IF op = "sum" THEN SumGeneral(v)
    ELSE RowsGeneral(op, v)

\* the orders an unstable argsort may return: every permutation of the
\* positions that puts the keys in non-decreasing order
SortingPerms(keys) ==
    LET n == Len(keys)
    IN {p \in [1..n -> 0..(n - 1)] :
           /\ \A a, b \in 1..n : a # b => p[a] # p[b]
           /\ \A a \in 1..(n - 1) : keys[p[a] + 1] <= keys[p[a + 1] + 1]}

\* _argminmax: shift[flatstarts] = ceil(content.max()) + 1, then cumsum
ArgShift(v) ==
    LET m1 == SetMax(SeqRange(v.content)) + 1
    IN [j \in DOMAIN v.content |->
           m1 * Cardinality({x \in SeqRange(v.starts) : x <= j - 1})]

ArgKeys(v) == [j \in DOMAIN v.content |-> v.content[j] + ArgShift(v)[j]]

\* whether _argminmax gets as far as its argsort
ArgSorts(v) ==
    /\ v.content # <<>>
    /\ \A i \in DOMAIN v.starts : v.starts[i] < Len(v.content)

\* _argminmax(ismin), sortedindex being what argsort returned
Argminmax(v, ismin, sortedindex) ==
    IF v.content = <<>> THEN Fail("ValueError")
    ELSE IF ~ArgSorts(v) THEN Fail("IndexError")
    ELSE LET n == Len(v.starts)
             at == IF ismin THEN v.starts ELSE [i \in 1..n |-> v.stops[i] - 1]
         IN IF ~FancyOK(sortedindex, at) THEN Fail("IndexError")
            ELSE Ok(Arange(n),
                    [i \in 1..n |-> (i - 1) + (IF v.starts[i] # v.stops[i] THEN 1 ELSE 0)],
                    [i \in 1..n |-> FancyGet(sortedindex, at)[i] - v.starts[i]])

(***************************************************************************)
(* Broadcasting, jagged indexing and elementwise dispatch.                 *)
(***************************************************************************)
\* the sequences of at most n items of S
SeqsUpTo(n, S) == UNION {[1..k -> S] : k \in 0..n}

\* the view a call returned
ViewOf(r, dt) == View(r.starts, r.stops, r.content, dt)

\* h._broadcast(data) for a flat array data: one value per content item,
\* items with parent -1 keep what numpy.empty left there (fill)
Broadcast(h, data, fill) ==
    LET pr == ParentsOf(h.starts, h.stops, Len(h.content))
        p  == pr.content
    IN IF pr.err # "none" THEN Fail(pr.err)
       ELSE IF \E j \in DOMAIN p : p[j] >= Len(data) THEN Fail("IndexError")
       ELSE Ok(h.starts, h.stops,
               [j \in DOMAIN p |-> IF p[j] >= 0 THEN data[p[j] + 1] ELSE fill])

\* v[h] for an integer-content jagged index h
GetitemInt(v, h, fill1, fill2) ==
    IF Len(h.starts) # Len(v.starts) THEN Fail("ValueError")
    ELSE LET ho == counts2offsets(Diff(h.stops, h.starts))
             hr == Tojagged(h, ButLast(ho), Rest(ho))
             head == ViewOf(hr, h.dtype)
             cb == Broadcast(head, Diff(v.stops, v.starts), fill1)
             cnt == cb.content
             wrapped == [j \in DOMAIN head.content |->
                            IF head.content[j] < 0 THEN head.content[j] + cnt[j]
                            ELSE head.content[j]]
             sb == Broadcast(head, v.starts, fill2)
             indexes == [j \in DOMAIN wrapped |-> wrapped[j] + sb.content[j]]
         IN IF hr.err # "none" THEN hr
            ELSE IF cb.err # "none" THEN cb
            ELSE IF \E j \in DOMAIN wrapped : ~(0 <= wrapped[j] /\ wrapped[j] < cnt[j])
            THEN Fail("IndexError")
            ELSE IF sb.err # "none" THEN sb
            ELSE IF ~FancyOK(v.content, indexes) THEN Fail("IndexError")
            ELSE Ok(head.starts, head.stops, FancyGet(v.content, indexes))

\* v[m] for a boolean-content jagged index m (items 1 for True, 0 for False)
GetitemBool(v, m) ==
    LET o == counts2offsets(Diff(v.stops, v.starts))
        tr == IF Contiguous(v.starts, v.stops)
              THEN (IF v.stops = <<>> THEN Fail("IndexError")
                    ELSE Ok(v.starts, v.stops, v.content))
              ELSE Tojagged(v, ButLast(o), Rest(o))
        thyself == ViewOf(tr, v.dtype)
        hr == Tojagged(m, thyself.starts, thyself.stops)
        inthead == ViewOf(hr, "uint8")
        intheadsum == Reduce("sum", inthead)
        so == counts2offsets(intheadsum.content)
    IN IF tr.err # "none" THEN tr
       ELSE IF hr.err # "none" THEN hr
       ELSE IF intheadsum.err # "none" THEN intheadsum
       ELSE IF Len(hr.content) # Len(thyself.content) THEN Fail("IndexError")
       ELSE Ok(ButLast(so), Rest(so),
               MaskGet(thyself.content, [k \in DOMAIN hr.content |-> hr.content[k] = 1]))

\* a binary ufunc on two aligned arrays: equal lengths, or one of one item
ElementwiseOK(x, y) == Len(x) = Len(y) \/ Len(x) = 1 \/ Len(y) = 1

Elementwise(dt, x, y) ==
    LET n == IF Len(x) = 1 THEN Len(y) ELSE IF Len(y) = 1 THEN Len(x) ELSE Len(x)
    IN [j \in 1..n |->
           Add(dt, IF Len(x) = 1 THEN x[1] ELSE x[j], IF Len(y) = 1 THEN y[1] ELSE y[j])]

\* numpy.add(a, b) dispatched through a.__array_ufunc__: b a scalar, a flat
\* array or a jagged array
ArrayUfunc(a, b) ==
    IF b.kind = "scalar"
    THEN Ok(a.starts, a.stops, Elementwise(a.dtype, a.content, b.content))
    ELSE IF b.kind = "ragged"
    THEN LET br == Tojagged(ViewOf(b, a.dtype), a.starts, a.stops)
         IN IF br.err # "none" THEN br
            ELSE IF ~ElementwiseOK(a.content, br.content) THEN Fail("ValueError")
            ELSE Ok(a.starts, a.stops, Elementwise(a.dtype, a.content, br.content))
    ELSE LET pr == ParentsOf(a.starts, a.stops, Len(a.content))
             p == pr.content
             good == NonNeg(p)
             data == b.content
             bc == [j \in DOMAIN p |-> IF p[j] >= 0 THEN data[p[j] + 1] ELSE 0]
         IN IF pr.err # "none" THEN Fail(pr.err)
            ELSE IF Len(a.starts) # Len(data) THEN Fail("ValueError")
            ELSE Ok(a.starts, a.stops,
                    Elementwise(a.dtype, MaskGet(a.content, good), MaskGet(bc, good)))

(***************************************************************************)
(* The object and the inputs of the operations' specification.             *)
(***************************************************************************)
Arg(k, st, sp, c) == [kind |-> k, starts |-> st, stops |-> sp, content |-> c]

NoArg == Arg("none", <<>>, <<>>, <<>>)

\* the view the object holds
Self == View(starts.data, stops.data, content.data, content.dtype)

NRows == Len(starts.data)

\* row i (1-based) of a layout over a buffer
Row(c, st, sp, i) == Sl(c, st[i], sp[i])

\* the layouts of r rows over a buffer of n items: 0 <= start <= stop <= n
Layouts(r, n) ==
    {l \in [1..r -> 0..n] \X [1..r -> 0..n] : \A i \in 1..r : l[1][i] <= l[2][i]}

\* a buffer of n pairwise distinct items: an item names its position
Distinct(n) == [j \in 1..n |-> 10 * j]

\* no two rows of a layout share a position
DisjointRows(st, sp) ==
    \A i, j \in DOMAIN st :
        i < j => (sp[i] <= st[j] \/ sp[j] <= st[i] \/ st[i] = sp[i] \/ st[j] = sp[j])

\* the caches a call leaves behind: self.counts and self.parents fill theirs
CountsRead == Int1(Diff(stops.data, starts.data))

ParentsRead ==
    LET pr == ParentsOf(starts.data, stops.data, Len(content.data))
    IN IF pr.err = "none" THEN Int1(pr.content) ELSE parents

OffsetsRead ==
    IF Contiguous(starts.data, stops.data) /\ stops.data # <<>>
    THEN Int1(starts.data \o <<stops.data[Len(stops.data)]>>)
    ELSE offsets

InitOps ==
    /\ \E n \in 0..MaxLen, r \in 1..MaxRows :
          \E l \in Layouts(r, n) :
              /\ starts = Int1(l[1])
              /\ stops = Int1(l[2])
              /\ content = Arr(1, "int8", Distinct(n))
    /\ offsets = None
    /\ counts = None
    /\ parents = None
    /\ isvalid = FALSE
    /\ pc = "idle"
    /\ arg = NoArg
    /\ ret = NoCall

\* v._tojagged(starts, stops, copy=False)
TojaggedOp ==
    /\ pc = "idle"
    /\ \E l \in Layouts(NRows, MaxLen) :
          /\ arg' = Arg("tojagged", l[1], l[2], <<>>)
          /\ ret' = Tojagged(Self, l[1], l[2])
          /\ counts' = CountsRead
          /\ LET fits == ArrayEqual(Diff(l[2], l[1]), Diff(stops.data, starts.data))
                 same == ArrayEqual(l[1], starts.data) /\ ArrayEqual(l[2], stops.data)
                 gathers == fits /\ ~same /\ ~Contiguous(starts.data, stops.data)
             IN /\ parents' = IF gathers THEN ParentsRead ELSE parents
    /\ isvalid' = TRUE
    /\ pc' = "done"
    /\ UNCHANGED <<starts, stops, content, offsets>>

\* whether _tojagged, past its checks, reads self.parents for its gather
Gathers(ts, tp) ==
    /\ ~(ArrayEqual(ts, starts.data) /\ ArrayEqual(tp, stops.data))
    /\ ~Contiguous(starts.data, stops.data)

\* v._tojagged(starts=ts, copy=False)
TojaggedStartsOp ==
    /\ pc = "idle"
    /\ \E ts \in [1..NRows -> 0..MaxLen] :
          LET tp == [i \in 1..NRows |-> ts[i] + (stops.data[i] - starts.data[i])]
              fits == \A i \in 1..(NRows - 1) : tp[i] <= ts[i + 1]
          IN /\ arg' = Arg("tojaggedstarts", ts, <<>>, <<>>)
             /\ ret' = TojaggedStarts(Self, ts)
             /\ parents' = IF fits /\ Gathers(ts, tp) THEN ParentsRead ELSE parents
    /\ counts' = CountsRead
    /\ isvalid' = TRUE
    /\ pc' = "done"
    /\ UNCHANGED <<starts, stops, content, offsets>>

\* v._tojagged(stops=tp, copy=False)
TojaggedStopsOp ==
    /\ pc = "idle"
    /\ \E tp \in [1..NRows -> 0..MaxLen] :
          LET ts == [i \in 1..NRows |-> tp[i] - (stops.data[i] - starts.data[i])]
              fits == /\ \A i \in 1..(NRows - 1) : tp[i] <= ts[i + 1]
                      /\ \A i \in 1..NRows : ts[i] >= 0
          IN /\ arg' = Arg("tojaggedstops", <<>>, tp, <<>>)
             /\ ret' = TojaggedStops(Self, tp)
             /\ parents' = IF fits /\ Gathers(ts, tp) THEN ParentsRead ELSE parents
    /\ counts' = CountsRead
    /\ isvalid' = TRUE
    /\ pc' = "done"
    /\ UNCHANGED <<starts, stops, content, offsets>>

\* v.flatten()
FlattenOp ==
    /\ pc = "idle"
    /\ arg' = Arg("flatten", <<>>, <<>>, <<>>)
    /\ ret' = Flatten(Self)
    /\ counts' = IF Canuseoffset(Self) THEN counts ELSE CountsRead
    /\ parents' = IF Canuseoffset(Self) THEN parents ELSE ParentsRead
    /\ isvalid' = TRUE
    /\ pc' = "done"
    /\ UNCHANGED <<starts, stops, content, offsets>>

\* the values of int8 and of float64 content items in the reductions
IntVals == {-1, 0, 2}

FloatVals == {1, PInf}

InitViews(dtypes) ==
    /\ \E n \in 0..MaxLen, r \in 1..MaxRows, dt \in dtypes :
          \E l \in Layouts(r, n) :
              \E c \in [1..n -> IF dt = "float64" THEN FloatVals ELSE IntVals] :
                  /\ starts = Int1(l[1])
                  /\ stops = Int1(l[2])
                  /\ content = Arr(1, dt, c)
    /\ offsets = None
    /\ counts = None
    /\ parents = None
    /\ isvalid = FALSE
    /\ pc = "idle"
    /\ arg = NoArg
    /\ ret = NoCall

InitReduce == InitViews({"int8", "float64"})

InitArg == InitViews({"int8"})

\* v.sum(), v.prod(), v.min(), v.max()
ReduceOp(op) ==
    /\ arg' = Arg(op, <<>>, <<>>, <<>>)
    /\ ret' = Reduce(op, Self)
    /\ offsets' = IF Canuseoffset(Self) THEN OffsetsRead ELSE offsets
    /\ isvalid' = TRUE
    /\ pc' = "done"
    /\ UNCHANGED <<starts, stops, content, counts, parents>>

SumOp ==
    /\ pc = "idle"
    /\ ReduceOp("sum")

ProdOp ==
    /\ pc = "idle"
    /\ ReduceOp("prod")

MinOp ==
    /\ pc = "idle"
    /\ ReduceOp("min")

MaxOp ==
    /\ pc = "idle"
    /\ ReduceOp("max")

NextReduce ==
    \/ SumOp
    \/ ProdOp
    \/ MinOp
    \/ MaxOp

SpecReduce == InitReduce /\ [][NextReduce]_vars

\* v.argmin() and v.argmax()
ArgOp(ismin) ==
    /\ arg' = Arg(IF ismin THEN "argmin" ELSE "argmax", <<>>, <<>>, <<>>)
    /\ \E sortedindex \in (IF ArgSorts(Self) THEN SortingPerms(ArgKeys(Self)) ELSE {<<>>}) :
          ret' = Argminmax(Self, ismin, sortedindex)
    /\ isvalid' = (isvalid \/ content.data # <<>>)
    /\ pc' = "done"
    /\ UNCHANGED <<starts, stops, content, offsets, counts, parents>>

ArgminOp ==
    /\ pc = "idle"
    /\ ArgOp(TRUE)

ArgmaxOp ==
    /\ pc = "idle"
    /\ ArgOp(FALSE)

NextArg ==
    \/ ArgminOp
    \/ ArgmaxOp

SpecArg == InitArg /\ [][NextArg]_vars

\* the items of an integer jagged index, and what numpy.empty may leave
IdxVals == (0 - MaxIdx)..(MaxIdx - 1)

Uninit == {0, 5}

\* v[h], h an integer-content jagged index, of as many rows as v or not
GetitemIntOp ==
    /\ pc = "idle"
    /\ \E n \in 0..MaxIdx, r \in 1..MaxRows :
          \E l \in Layouts(r, n), c \in [1..n -> IdxVals], fill1, fill2 \in Uninit :
              /\ arg' = Arg("getint", l[1], l[2], c)
              /\ ret' = GetitemInt(Self, View(l[1], l[2], c, "int"), fill1, fill2)
    /\ counts' = CountsRead
    /\ isvalid' = TRUE
    /\ pc' = "done"
    /\ UNCHANGED <<starts, stops, content, offsets, parents>>

\* v[m], m a boolean-content jagged index with as many rows as v
GetitemBoolOp ==
    /\ pc = "idle"
    /\ \E n \in 0..MaxLen :
          \E l \in Layouts(NRows, n), c \in [1..n -> {0, 1}] :
              /\ arg' = Arg("getbool", l[1], l[2], c)
              /\ ret' = GetitemBool(Self, View(l[1], l[2], c, "bool"))
    /\ offsets' = OffsetsRead
    /\ counts' = IF Canuseoffset(Self) THEN counts ELSE CountsRead
    /\ parents' = IF Canuseoffset(Self) THEN parents ELSE ParentsRead
    /\ isvalid' = TRUE
    /\ pc' = "done"
    /\ UNCHANGED <<starts, stops, content>>

\* flat arrays of one value per row, and of too few or too many values
FlatValues == SeqsUpTo(MaxRows + 1, {1, 2})

\* v._broadcast(data) for a flat array data
BroadcastOp ==
    /\ pc = "idle"
    /\ \E data \in FlatValues, fill \in Uninit :
          /\ arg' = Arg("broadcast", <<>>, <<>>, data)
          /\ ret' = Broadcast(Self, data, fill)
    /\ parents' = ParentsRead
    /\ offsets' = OffsetsRead
    /\ isvalid' = TRUE
    /\ pc' = "done"
    /\ UNCHANGED <<starts, stops, content, counts>>

\* the second operand of a + b: a scalar, a flat array, or a jagged array
\* with as many rows
Operands ==
    {Arg("scalar", <<>>, <<>>, <<1>>)}
    \cup {Arg("flat", <<>>, <<>>, d) : d \in FlatValues}
    \cup UNION {{Arg("ragged", l[1], l[2], Arange(n)) : l \in Layouts(NRows, n)} :
                   n \in 0..MaxLen}

\* numpy.add(v, b)
UfuncOp ==
    /\ pc = "idle"
    /\ \E b \in Operands :
          /\ arg' = b
          /\ ret' = ArrayUfunc(Self, b)
          /\ parents' = IF b.kind = "flat" THEN ParentsRead ELSE parents
          /\ offsets' = IF b.kind = "flat" THEN OffsetsRead ELSE offsets
    /\ isvalid' = TRUE
    /\ pc' = "done"
    /\ UNCHANGED <<starts, stops, content, counts>>

NextOps ==
    \/ TojaggedOp
    \/ TojaggedStartsOp
    \/ TojaggedStopsOp
    \/ FlattenOp
    \/ GetitemIntOp
    \/ GetitemBoolOp
    \/ BroadcastOp
    \/ UfuncOp

SpecOps == InitOps /\ [][NextOps]_vars

\* C1: relayout preserves row contents.  For a view with rows contiguous,
\* with gaps, out of index order or overlapping, and a target starts/stops
\* whose per-row lengths equal the view's counts (the target's rows not
\* overlapping one another), _tojagged returns a view with the target's
\* starts and stops whose every row equals the source's row.
C1_RelayoutPreservesRows ==
    (/\ arg.kind = "tojagged"
     /\ ArrayEqual(Diff(arg.stops, arg.starts), Diff(stops.data, starts.data))
     /\ DisjointRows(arg.starts, arg.stops))
    => /\ ret.err = "none"
       /\ ret.starts = arg.starts
       /\ ret.stops = arg.stops
       /\ \A i \in 1..NRows :
             Row(ret.content, arg.starts, arg.stops, i)
                = Row(content.data, starts.data, stops.data, i)

\* the rows of a layout one after another, in row order
RECURSIVE ConcatRowsFrom(_, _, _, _)
ConcatRowsFrom(c, st, sp, i) ==
    IF i > Len(st) THEN <<>>
    ELSE Row(c, st, sp, i) \o ConcatRowsFrom(c, st, sp, i + 1)

ConcatRows(c, st, sp) == ConcatRowsFrom(c, st, sp, 1)

\* C7: flatten() of a view with at least one row is the concatenation of its
\* rows in row order, whether the rows are offset-contiguous or not.
C7_FlattenConcatenatesRows ==
    (arg.kind = "flatten" /\ NRows >= 1)
    => /\ ret.err = "none"
       /\ ret.content = ConcatRows(content.data, starts.data, stops.data)

\* the reduction of a row: the identity when the row is empty
RowReduce(op, dt, row) == IF row = <<>> THEN Identity(op, dt) ELSE Fold(op, dt, row)

\* C4: on a view that is not offset-contiguous, sum(), prod(), min() and
\* max() return one value per row, the reduction of content[start:stop],
\* and the operator's identity for an empty row.
C4_GeneralPathReductions ==
    (arg.kind \in {"sum", "prod", "min", "max"} /\ ~Canuseoffset(Self))
    => /\ ret.err = "none"
       /\ Len(ret.content) = NRows
       /\ \A i \in 1..NRows :
             ret.content[i]
                = RowReduce(arg.kind, content.dtype, Row(content.data, starts.data, stops.data, i))

\* rows in index order that do not overlap: contiguous or with gaps
OrderedRows(st, sp) == \A i \in 1..(Len(st) - 1) : sp[i] <= st[i + 1]

\* C5: argmin()/argmax() of a view over non-empty content (values of either
\* sign) whose rows are contiguous or have gaps
\* returns a view with as many rows, row i empty when the source row is
\* empty and otherwise holding one row-local index k, 0 <= k < count_i,
\* of an item equal to the row's minimum (argmax: maximum).
C5_ArgminmaxPicksRowOptimum ==
    (/\ arg.kind \in {"argmin", "argmax"}
     /\ OrderedRows(starts.data, stops.data)
     /\ content.data # <<>>)
    => /\ ret.err = "none"
       /\ Len(ret.starts) = NRows
       /\ Len(ret.stops) = NRows
       /\ \A i \in 1..NRows :
             LET row == Row(content.data, starts.data, stops.data, i)
                 out == Row(ret.content, ret.starts, ret.stops, i)
             IN IF row = <<>> THEN out = <<>>
                ELSE /\ Len(out) = 1
                     /\ 0 <= out[1] /\ out[1] < Len(row)
                     /\ row[out[1] + 1]
                           = (IF arg.kind = "argmin" THEN SetMin(SeqRange(row))
                              ELSE SetMax(SeqRange(row)))

\* an index whose every value lies within its own row of the view
IndexInRange(v, h) ==
    \A i \in DOMAIN h.starts :
        \A x \in SeqRange(Row(h.content, h.starts, h.stops, i)) :
            /\ 0 - (v.stops[i] - v.starts[i]) <= x
            /\ x < v.stops[i] - v.starts[i]

\* C2: for an integer jagged index with as many rows as the view, every
\* value within [-count_i, count_i) of its row, view[idx] has idx's row
\* counts and its item (i, k) is view[i][idx[i][k] mod count_i].
C2_IntegerJaggedIndex ==
    (arg.kind = "getint" /\ Len(arg.starts) = NRows /\ IndexInRange(Self, arg))
    => /\ ret.err = "none"
       /\ Len(ret.starts) = NRows
       /\ Diff(ret.stops, ret.starts) = Diff(arg.stops, arg.starts)
       /\ \A i \in 1..NRows :
             LET row == Row(content.data, starts.data, stops.data, i)
                 idx == Row(arg.content, arg.starts, arg.stops, i)
             IN Row(ret.content, ret.starts, ret.stops, i)
                   = [k \in DOMAIN idx |-> row[(idx[k] % Len(row)) + 1]]

\* C3: for a boolean jagged index with the view's per-row counts, view[m]
\* has as many rows, and row i is the subsequence of the view's row i at
\* the positions where m's row i is true, in order.
C3_BooleanJaggedIndex ==
    (/\ arg.kind = "getbool"
     /\ Diff(arg.stops, arg.starts) = Diff(stops.data, starts.data))
    => /\ ret.err = "none"
       /\ Len(ret.starts) = NRows
       /\ Len(ret.stops) = NRows
       /\ \A i \in 1..NRows :
             LET row == Row(content.data, starts.data, stops.data, i)
                 m == Row(arg.content, arg.starts, arg.stops, i)
             IN Row(ret.content, ret.starts, ret.stops, i)
                   = MaskGet(row, [k \in DOMAIN m |-> m[k] = 1])

\* C6: a + b for a scalar b, a flat b of one value per row or a jagged b
\* with a's per-row counts has a's starts and stops, and its item (i, k) is
\* a[i][k] + b, a[i][k] + b[i] or a[i][k] + b[i][k], whatever a's layout.
C6_ElementwiseDispatch ==
    (/\ arg.kind \in {"scalar", "flat", "ragged"}
     /\ arg.kind = "flat" => Len(arg.content) = NRows
     /\ arg.kind = "ragged"
           => Diff(arg.stops, arg.starts) = Diff(stops.data, starts.data))
    => /\ ret.err = "none"
       /\ ret.starts = starts.data
       /\ ret.stops = stops.data
       /\ \A i \in 1..NRows :
             LET row == Row(content.data, starts.data, stops.data, i)
                 other == Row(arg.content, arg.starts, arg.stops, i)
             IN Row(ret.content, ret.starts, ret.stops, i)
                   = [k \in DOMAIN row |->
                         Add(content.dtype, row[k],
                             IF arg.kind = "scalar" THEN arg.content[1]
                             ELSE IF arg.kind = "flat" THEN arg.content[i]
                             ELSE other[k])]

(***************************************************************************)
(* The life of one object: the setters and the structural reads, in any    *)
(* order, on the object a constructor call left.                           *)
(***************************************************************************)
\* the arrays handed to the setters: one-dimensional integer arrays (some
\* with a negative item), one-dimensional float arrays, zero-dimensional
\* integer arrays
IntArrays == {Arr(1, "int", d) : d \in SeqsUpTo(MaxSet, (-1)..MaxOff)}

FloatArrays == {Arr(1, "float", d) : d \in SeqsUpTo(1, 0..MaxOff)}

ScalarArrays == {Arr(0, "int", <<x>>) : x \in 0..MaxOff}

Arrays == IntArrays \cup FloatArrays \cup ScalarArrays

Contents == {Arr(1, "int8", Distinct(n)) : n \in 1..MaxSet}

\* (value < 0).any()
AnyNegative(value) == \E k \in DOMAIN value.data : value.data[k] < 0

Returned(d) == Ok(<<>>, <<>>, d)

\* JaggedArray(starts, stops, content): the three setters, in this order
Init ==
    /\ starts \in {a \in Arrays : ~AnyNegative(a)}
    /\ stops \in {a \in Arrays : ~AnyNegative(a)}
    /\ content \in Contents
    /\ offsets = None
    /\ counts = None
    /\ parents = None
    /\ isvalid = FALSE
    /\ pc = "idle"
    /\ arg = NoArg
    /\ ret = NoCall

\* _validstartsstops: the error it raises, "none" when it returns
Validstartsstops(st, sp) ==
    IF st.ndim = 0 THEN "TypeError"
    ELSE IF ~(st.data = <<>> \/ st.dtype = "int") THEN "TypeError"
    ELSE IF sp.ndim # st.ndim THEN "TypeError"
    ELSE IF ~(sp.data = <<>> \/ sp.dtype = "int") THEN "TypeError"
    ELSE IF Len(st.data) > Len(sp.data) THEN "ValueError"
    ELSE "none"

\* _valid: nothing is checked while the flag is set
Valid == IF isvalid THEN "none" ELSE Validstartsstops(starts, stops)

SetStarts ==
    \E value \in Arrays :
        /\ arg' = Arg("setstarts", <<>>, <<>>, value.data)
        /\ IF AnyNegative(value)
           THEN /\ ret' = Fail("ValueError")
                /\ UNCHANGED <<starts, offsets, counts, parents, isvalid>>
           ELSE /\ starts' = value
                /\ offsets' = None
                /\ counts' = None
                /\ parents' = None
                /\ isvalid' = FALSE
                /\ ret' = Returned(<<>>)
        /\ UNCHANGED <<stops, content, pc>>

SetStops ==
    \E value \in Arrays :
        /\ arg' = Arg("setstops", <<>>, <<>>, value.data)
        /\ IF AnyNegative(value)
           THEN /\ ret' = Fail("ValueError")
                /\ UNCHANGED <<stops, offsets, counts, parents, isvalid>>
           ELSE /\ stops' = value
                /\ offsets' = None
                /\ counts' = None
                /\ parents' = None
                /\ isvalid' = FALSE
                /\ ret' = Returned(<<>>)
        /\ UNCHANGED <<starts, content, pc>>

SetContent ==
    \E value \in Contents :
        /\ arg' = Arg("setcontent", <<>>, <<>>, value.data)
        /\ content' = value
        /\ isvalid' = FALSE
        /\ ret' = Returned(<<>>)
        /\ UNCHANGED <<starts, stops, offsets, counts, parents, pc>>

SetOffsets ==
    \E value \in Arrays :
        /\ arg' = Arg("setoffsets", <<>>, <<>>, value.data)
        /\ IF value.ndim # 1 \/ AnyNegative(value)
           THEN /\ ret' = Fail("ValueError")
                /\ UNCHANGED <<starts, stops, offsets, counts, parents, isvalid>>
           ELSE /\ starts' = Arr(1, value.dtype, ButLast(value.data))
                /\ stops' = Arr(1, value.dtype, Rest(value.data))
                /\ offsets' = value
                /\ counts' = None
                /\ parents' = None
                /\ isvalid' = FALSE
                /\ ret' = Returned(<<>>)
        /\ UNCHANGED <<content, pc>>

SetCounts ==
    \E value \in IntArrays \cup ScalarArrays :
        /\ arg' = Arg("setcounts", <<>>, <<>>, value.data)
        /\ IF AnyNegative(value)
           THEN /\ ret' = Fail("ValueError")
                /\ UNCHANGED <<starts, stops, offsets, counts, parents, isvalid>>
           ELSE LET o == counts2offsets(value.data)
                IN /\ starts' = Arr(value.ndim, "int", ButLast(o))
                   /\ stops' = Arr(value.ndim, "int", Rest(o))
                   /\ offsets' = IF value.ndim = 1 THEN Int1(o) ELSE None
                   /\ counts' = value
                   /\ parents' = None
                   /\ isvalid' = FALSE
                   /\ ret' = Returned(<<>>)
        /\ UNCHANGED <<content, pc>>

\* the setter compares len(value) with len(content), a name that is bound
\* nowhere: it raises before it assigns anything
SetParents ==
    \E value \in IntArrays \cup ScalarArrays :
        /\ arg' = Arg("setparents", <<>>, <<>>, value.data)
        /\ ret' = Fail(IF value.ndim = 0 THEN "TypeError" ELSE "NameError")
        /\ UNCHANGED <<starts, stops, content, offsets, counts, parents, isvalid, pc>>

\* len(v)
LenOp ==
    /\ arg' = Arg("len", <<>>, <<>>, <<>>)
    /\ IF Valid # "none"
       THEN /\ ret' = Fail(Valid)
            /\ UNCHANGED isvalid
       ELSE /\ ret' = Returned(<<Len(starts.data)>>)
            /\ isvalid' = TRUE
    /\ UNCHANGED <<starts, stops, content, offsets, counts, parents, pc>>

\* the offsets getter past its cache test: the error it raises and the
\* offsets cache it leaves
OffsetsGet ==
    IF offsets # None THEN [err |-> "none", offsets |-> offsets]
    ELSE IF Valid # "none" THEN [err |-> Valid, offsets |-> offsets]
    ELSE IF ~Contiguous(starts.data, stops.data)
    THEN [err |-> "ValueError", offsets |-> offsets]
    ELSE IF stops.data = <<>> THEN [err |-> "IndexError", offsets |-> offsets]
    ELSE [err |-> "none",
          offsets |-> Arr(1, starts.dtype,
                          starts.data \o <<stops.data[Len(stops.data)]>>)]

\* v.offsets
GetOffsets ==
    /\ arg' = Arg("offsets", <<>>, <<>>, <<>>)
    /\ offsets' = OffsetsGet.offsets
    /\ ret' = IF OffsetsGet.err # "none" THEN Fail(OffsetsGet.err)
              ELSE Returned(OffsetsGet.offsets.data)
    /\ isvalid' = (isvalid \/ (offsets = None /\ Valid = "none"))
    /\ UNCHANGED <<starts, stops, content, counts, parents, pc>>

\* stops - starts under numpy's broadcasting of one-dimensional arrays
CanSubtract(sp, st) == Len(sp) = Len(st) \/ Len(sp) = 1 \/ Len(st) = 1

Subtract(sp, st) ==
    IF Len(sp) = Len(st) THEN Diff(sp, st)
    ELSE IF Len(st) = 1 THEN [i \in DOMAIN sp |-> sp[i] - st[1]]
    ELSE [i \in DOMAIN st |-> sp[1] - st[i]]

\* v.counts
GetCounts ==
    /\ arg' = Arg("counts", <<>>, <<>>, <<>>)
    /\ IF counts # None
       THEN /\ ret' = Returned(counts.data)
            /\ UNCHANGED <<counts, isvalid>>
       ELSE IF Valid # "none"
       THEN /\ ret' = Fail(Valid)
            /\ UNCHANGED <<counts, isvalid>>
       ELSE IF ~CanSubtract(stops.data, starts.data)
       THEN /\ ret' = Fail("ValueError")
            /\ isvalid' = TRUE
            /\ UNCHANGED counts
       ELSE /\ counts' = Arr(1, IF "float" \in {starts.dtype, stops.dtype}
                                THEN "float" ELSE "int",
                             Subtract(stops.data, starts.data))
            /\ ret' = Returned(counts'.data)
            /\ isvalid' = TRUE
    /\ UNCHANGED <<starts, stops, content, offsets, parents, pc>>

\* v.parents: through self.offsets, and when that raises ValueError from
\* starts and stops
GetParents ==
    /\ arg' = Arg("parents", <<>>, <<>>, <<>>)
    /\ IF parents # None
       THEN /\ ret' = Returned(parents.data)
            /\ UNCHANGED <<parents, offsets, isvalid>>
       ELSE IF Valid # "none"
       THEN /\ ret' = Fail(Valid)
            /\ UNCHANGED <<parents, offsets, isvalid>>
       ELSE /\ isvalid' = TRUE
            /\ offsets' = OffsetsGet.offsets
            /\ IF OffsetsGet.err = "IndexError"
               THEN /\ ret' = Fail("IndexError")
                    /\ UNCHANGED parents
               ELSE /\ parents' =
                         Int1(IF OffsetsGet.err = "none"
                              THEN offsets2parents(OffsetsGet.offsets.data,
                                                   Len(content.data))
                              ELSE startsstops2parents(starts.data, stops.data,
                                                       Len(content.data)))
                    /\ ret' = Returned(parents'.data)
    /\ UNCHANGED <<starts, stops, content, counts, pc>>

Next ==
    \/ SetStarts
    \/ SetStops
    \/ SetContent
    \/ SetOffsets
    \/ SetCounts
    \/ SetParents
    \/ LenOp
    \/ GetOffsets
    \/ GetCounts
    \/ GetParents

Spec == Init /\ [][Next]_vars

Setters == {"setstarts", "setstops", "setcontent", "setoffsets", "setcounts",
            "setparents"}

Reads == {"len", "offsets", "counts", "parents"}

\* C8: when a setter has completed, the validity flag is cleared and every
\* derived cache the setter did not itself supply (offsets, counts,
\* parents) is empty.
C8_SettersClearCaches ==
    (arg.kind \in Setters /\ ret.err = "none")
    => /\ isvalid = FALSE
       /\ arg.kind \notin {"setoffsets", "setcounts"} => offsets = None
       /\ arg.kind # "setcounts" => counts = None
       /\ arg.kind # "setparents" => parents = None

\* the shape of an array of at most one dimension
ShapeOf(a) == IF a.ndim = 0 THEN <<>> ELSE <<Len(a.data)>>

\* C9: validation, as len() performs it, raises TypeError for starts of
\* zero dimensions and for non-empty starts or stops of a non-integral
\* dtype, raises ValueError for more starts than stops, and lets no pair of
\* different shapes pass.
C9_ValidationRejectsInvalidPairs ==
    (arg.kind = "len")
    => /\ starts.ndim = 0 => ret.err = "TypeError"
       /\ (\/ starts.data # <<>> /\ starts.dtype # "int"
           \/ stops.data # <<>> /\ stops.dtype # "int") => ret.err = "TypeError"
       /\ (/\ starts.ndim = 1 /\ stops.ndim = 1
           /\ starts.dtype = "int" /\ stops.dtype = "int"
           /\ Len(starts.data) > Len(stops.data)) => ret.err = "ValueError"
       /\ ShapeOf(starts) # ShapeOf(stops) => ret.err # "none"

\* C10: a structural read (len, offsets, counts, parents) returns a value
\* only from a view whose starts and stops pass validation.
C10_ReadsValidateFirst ==
    (arg.kind \in Reads /\ ret.err = "none")
    => Validstartsstops(starts, stops) = "none"

(***************************************************************************)
(* v[head, key]: a slice of the rows, then a key applied within each row.  *)
(***************************************************************************)
\* a tail key: an integer j, or something that is not an integer
TailKey(k, j) == [kind |-> k, j |-> j]

\* the while loop of __getitem__ with every negative j wrapped by one
\* length, that of the longest row
GetitemTailGlobalWrap(node, key) ==
    IF key.kind # "tailint" THEN Fail("UnboundLocalError")
    ELSE LET cnt == Diff(node.stops, node.starts)
             top == SetMax(SeqRange(cnt) \cup {0})
             head == [i \in DOMAIN cnt |-> IF key.j < 0 THEN top + key.j ELSE key.j]
             idx == [i \in DOMAIN cnt |-> node.starts[i] + head[i]]
         IN IF \E i \in DOMAIN cnt : ~(0 <= head[i] /\ head[i] < cnt[i])
            THEN Fail("IndexError")
            ELSE IF ~FancyOK(node.content, idx) THEN Fail("IndexError")
            ELSE Ok(<<>>, <<>>, FancyGet(node.content, idx))

\* the while loop of __getitem__ on node = v[head], for one tail key: a
\* key that is not an integer reaches a raise that formats original_head,
\* a local the integer branch alone binds
GetitemTail(node, key) ==
    IF key.kind # "tailint" THEN Fail("UnboundLocalError")
    ELSE LET cnt == Diff(node.stops, node.starts)
             head == [i \in DOMAIN cnt |-> IF key.j < 0 THEN cnt[i] + key.j ELSE key.j]
             idx == [i \in DOMAIN cnt |-> node.starts[i] + head[i]]
         IN IF \E i \in DOMAIN cnt : ~(0 <= head[i] /\ head[i] < cnt[i])
            THEN Fail("IndexError")
            ELSE IF ~FancyOK(node.content, idx) THEN Fail("IndexError")
            ELSE Ok(<<>>, <<>>, FancyGet(node.content, idx))

\* the row slices used as head: v[:], v[1:], v[:-1], as (lo, hi)
HeadSlices == {<<0, NRows>>, <<1, NRows>>, <<0, NRows - 1>>}

\* node = self.copy(starts=self._starts[head], stops=self._stops[head])
HeadNode(h) ==
    View(Sl(starts.data, h[1], h[2]), Sl(stops.data, h[1], h[2]),
         content.data, content.dtype)

\* v[head, j] for an integer j
GetitemTailIntOp ==
    /\ pc = "idle"
    /\ \E h \in HeadSlices, j \in (0 - MaxLen)..MaxLen :
          /\ arg' = Arg("tailint", <<h[1]>>, <<h[2]>>, <<j>>)
          /\ ret' = GetitemTail(HeadNode(h), TailKey("tailint", j))
    /\ isvalid' = TRUE
    /\ pc' = "done"
    /\ UNCHANGED <<starts, stops, content, offsets, counts, parents>>

\* v[head, key] for a key that is a slice or an array
GetitemTailOtherOp ==
    /\ pc = "idle"
    /\ \E h \in HeadSlices, k \in {"tailslice", "tailarray"} :
          /\ arg' = Arg(k, <<h[1]>>, <<h[2]>>, <<>>)
          /\ ret' = GetitemTail(HeadNode(h), TailKey(k, 0))
    /\ isvalid' = TRUE
    /\ pc' = "done"
    /\ UNCHANGED <<starts, stops, content, offsets, counts, parents>>

NextTail ==
    \/ GetitemTailIntOp
    \/ GetitemTailOtherOp

SpecTail == InitOps /\ [][NextTail]_vars

\* the rows a head slice selects, as row numbers of the view
HeadRows == (arg.starts[1] + 1)..arg.stops[1]

\* C11: v[head, j] for an integer j returns one item per selected row,
\* content[starts[i] + j] for j >= 0 and content[starts[i] + count_i + j]
\* for j < 0, and raises IndexError when j is outside [-count_i, count_i)
\* for some selected row.
C11_IntegerTailIndex ==
    (arg.kind = "tailint")
    => LET j == arg.content[1]
           cnt == Diff(stops.data, starts.data)
           lo == arg.starts[1]
       IN IF \A i \in HeadRows : 0 - cnt[i] <= j /\ j < cnt[i]
          THEN /\ ret.err = "none"
               /\ Len(ret.content) = Cardinality(HeadRows)
               /\ \A i \in HeadRows :
                     ret.content[i - lo]
                        = content.data[starts.data[i]
                                       + (IF j >= 0 THEN j ELSE cnt[i] + j) + 1]
          ELSE ret.err = "IndexError" /\ ret.content = <<>>

\* C11 witness: v[:, -1] has returned for a view of two rows of different
\* lengths
C11_Witness ==
    /\ arg.kind = "tailint"
    /\ arg.content[1] < 0
    /\ HeadRows = {1, 2}
    /\ stops.data[1] - starts.data[1] # stops.data[2] - starts.data[2]
    /\ ret.err = "none"
    /\ Len(ret.content) = 2

\* C12: v[head, key] for a key that is not an integer raises
\* NotImplementedError.
C12_UnsupportedTailKey ==
    (arg.kind \in {"tailslice", "tailarray"}) => ret.err = "NotImplementedError"

\* C13: v[idx] for an integer jagged index raises IndexError when idx has
\* v's number of rows and some idx[i][k] is outside [-count_i, count_i) of
\* its own row, and raises an error when idx has another number of rows.
C13_IntegerJaggedIndexBounds ==
    (arg.kind = "getint")
    => /\ Len(arg.starts) # NRows => ret.err # "none"
       /\ (Len(arg.starts) = NRows /\ ~IndexInRange(Self, arg))
             => ret.err = "IndexError"

Relayouts == {"tojagged", "tojaggedstarts", "tojaggedstops"}

\* the target starts of a relayout call, whichever side was given
TargetStarts ==
    IF arg.kind = "tojaggedstops"
    THEN [i \in 1..NRows |-> arg.stops[i] - (stops.data[i] - starts.data[i])]
    ELSE arg.starts

\* C14: _tojagged, given target starts, target stops or both (with the
\* view's counts), raises IndexError whenever some row's count does not
\* fit before the next row's target start.
C14_RelayoutFitCheck ==
    (/\ arg.kind \in Relayouts
     /\ arg.kind = "tojagged"
           => Diff(arg.stops, arg.starts) = Diff(stops.data, starts.data)
     /\ \E i \in 1..(NRows - 1) :
           TargetStarts[i] + (stops.data[i] - starts.data[i]) > TargetStarts[i + 1])
    => ret.err = "IndexError"

\* C15: _broadcast(data) and elementwise dispatch with a flat array whose
\* length is not the view's number of rows raise ValueError.
C15_BroadcastRowCountCheck ==
    (arg.kind \in {"broadcast", "flat"} /\ Len(arg.content) # NRows)
    => ret.err = "ValueError"

(***************************************************************************)
(* v[key] = what.  The content is a table of two columns, "x" and "y",    *)
(* held as content.data = <<column x, column y>>; assigning to a column    *)
(* name replaces that column.                                              *)
(***************************************************************************)
InitTable(n) == <<Distinct(n), [j \in 1..n |-> 0]>>

ColumnOf(name) == IF name = "x" THEN 1 ELSE 2

\* content[name] = column
TableSet(t, name, column) == [t EXCEPT ![ColumnOf(name)] = column]

\* a value to assign: a flat array, or a jagged array
What(k, st, sp, c) == [kind |-> k, starts |-> st, stops |-> sp, content |-> c]

\* the rows of the view, over a content of the table's length
TableRows(t) == View(starts.data, stops.data, t[2], "int8")

\* the column one value becomes: y._tojagged(starts, stops)._content for a
\* jagged array, self._broadcast(y)._content for anything else
SetitemValue(t, w, fill) ==
    IF w.kind = "ragged"
    THEN Tojagged(ViewOf(w, "int8"), starts.data, stops.data)
    ELSE Broadcast(TableRows(t), w.content, fill)

SetResult(e, t, b) == [err |-> e, table |-> t, bcast |-> b]

\* the for loop over zip(where, what), from pair k on; b tells whether
\* _broadcast has run
RECURSIVE SetitemLoop(_, _, _, _, _, _)
SetitemLoop(t, names, what, fills, k, b) ==
    IF k > Len(names) \/ k > Len(what) THEN SetResult("none", t, b)
    ELSE LET r == SetitemValue(t, what[k], fills[k])
             b2 == b \/ what[k].kind # "ragged"
         IN IF r.err # "none" THEN SetResult(r.err, t, b2)
            ELSE SetitemLoop(TableSet(t, names[k], r.content), names, what,
                             fills, k + 1, b2)

\* __setitem__ with the length test after the first column is written
SetitemWritesFirst(t, key, what, fills) ==
    IF key.kind = "string"
    THEN SetitemLoop(t, key.names, what, fills, 1, FALSE)
    ELSE IF key.kind = "strings"
    THEN (IF Len(key.names) # Len(what)
          THEN SetResult("ValueError",
                         SetitemLoop(t, SubSeq(key.names, 1, 1), what, fills,
                                     1, FALSE).table, FALSE)
          ELSE SetitemLoop(t, key.names, what, fills, 1, FALSE))
    ELSE SetResult("TypeError", InitTable(0), FALSE)

\* __setitem__(where, what): where a string (names has one name, what one
\* value), a sequence of strings, or anything else
Setitem(t, key, what, fills) ==
    IF key.kind = "string"
    THEN SetitemLoop(t, key.names, what, fills, 1, FALSE)
    ELSE IF key.kind = "strings"
    THEN (IF Len(key.names) # Len(what) THEN SetResult("ValueError", t, FALSE)
          ELSE SetitemLoop(t, key.names, what, fills, 1, FALSE))
    ELSE SetResult("TypeError", t, FALSE)

Key(k, names) == [kind |-> k, names |-> names]

\* the values handed to an assignment: flat arrays of several lengths, and
\* the jagged array of the view's own counts in the canonical layout
Whats ==
    {What("flat", <<>>, <<>>, [j \in 1..k |-> j]) : k \in 0..(MaxRows + 1)}
    \cup {LET o == counts2offsets(Diff(stops.data, starts.data))
          IN What("ragged", ButLast(o), Rest(o), Arange(o[Len(o)]))}

InitSet ==
    /\ \E n \in 0..MaxLen, r \in 1..MaxRows :
          \E l \in Layouts(r, n) :
              /\ starts = Int1(l[1])
              /\ stops = Int1(l[2])
              /\ content = Arr(1, "table", InitTable(n))
    /\ offsets = None
    /\ counts = None
    /\ parents = None
    /\ isvalid = FALSE
    /\ pc = "idle"
    /\ arg = NoArg
    /\ ret = NoCall

\* the effect of one call of __setitem__
SetitemCall(key, what) ==
    \E fills \in [1..2 -> Uninit] :
        LET r == Setitem(content.data, key, what, fills)
        IN /\ arg' = Arg(key.kind, <<>>, <<>>, <<Len(key.names), Len(what)>>)
           /\ ret' = IF r.err = "none" THEN Returned(<<>>) ELSE Fail(r.err)
           /\ content' = Arr(1, "table", r.table)
           /\ parents' = IF r.bcast THEN ParentsRead ELSE parents
           /\ offsets' = IF r.bcast THEN OffsetsRead ELSE offsets
           /\ isvalid' = (isvalid \/ r.bcast)
           /\ pc' = "done"
           /\ UNCHANGED <<starts, stops, counts>>

\* v["x"] = what
SetitemStringOp ==
    /\ pc = "idle"
    /\ \E name \in {"x", "y"}, w \in Whats :
          SetitemCall(Key("string", <<name>>), <<w>>)

\* v[["x"]] = what and v[["x", "y"]] = what, what a sequence of values
SetitemStringsOp ==
    /\ pc = "idle"
    /\ \E names \in {<<"x">>, <<"x", "y">>, <<"y", "x">>},
          what \in SeqsUpTo(MaxSet, Whats) :
          SetitemCall(Key("strings", names), what)

\* v[key] = what for a key that is an integer, a slice, an array or a
\* jagged array
SetitemOtherOp ==
    /\ pc = "idle"
    /\ \E k \in {"int", "slice", "array", "jagged"}, w \in Whats :
          SetitemCall(Key(k, <<>>), <<w>>)

NextSet ==
    \/ SetitemStringOp
    \/ SetitemStringsOp
    \/ SetitemOtherOp

SpecSet == InitSet /\ [][NextSet]_vars

OtherKeys == {"int", "slice", "array", "jagged"}

\* C16: v[key] = what raises an error and changes neither starts, stops,
\* content nor a cache when key is neither a string nor a sequence of
\* strings, and raises ValueError with no column written when key is a
\* sequence of strings of another length than what.
C16_WritePathKeys ==
    [][/\ arg'.kind \in OtherKeys
          => /\ ret'.err # "none"
             /\ UNCHANGED <<starts, stops, content, offsets, counts, parents>>
       /\ (arg'.kind = "strings" /\ arg'.content[1] # arg'.content[2])
          => /\ ret'.err = "ValueError"
             /\ UNCHANGED <<starts, stops, content, offsets, counts, parents>>]_vars

\* C16 witness: an assignment of one value to two column names has been
\* refused, on a table with rows
C16_Witness ==
    /\ arg.kind = "strings"
    /\ arg.content = <<2, 1>>
    /\ ret.err = "ValueError"
    /\ content.data[1] # <<>>

(***************************************************************************)
(* Construction: the constructor and the class methods that build a view   *)
(* from offsets, counts, rows or parents, then one read of the new view.   *)
(* A built object is [err, starts, stops, content, offsets, counts,        *)
(* parents]; pc tells which call came last.                                *)
(***************************************************************************)
Obj(e, st, sp, c, o, cn, p) ==
    [err |-> e, starts |-> st, stops |-> sp, content |-> c,
     offsets |-> o, counts |-> cn, parents |-> p]

NoObj(e) == Obj(e, None, None, None, None, None, None)

\* JaggedArray(starts, stops, content): the three setters, in this order
New(st, sp, c) ==
    IF AnyNegative(st) \/ AnyNegative(sp) THEN NoObj("ValueError")
    ELSE Obj("none", st, sp, c, None, None, None)

FromoffsetsSwapped(o, c) ==
    IF o.ndim # 1 \/ AnyNegative(o) THEN NoObj("ValueError")
    ELSE [New(Arr(1, o.dtype, Rest(o.data)), Arr(1, o.dtype, ButLast(o.data)), c)
            EXCEPT !.offsets = o]

\* fromoffsets: starts and stops are offsets[:-1] and offsets[1:], and the
\* offsets are kept as the cache
Fromoffsets(o, c) ==
    IF o.ndim # 1 \/ AnyNegative(o) THEN NoObj("ValueError")
    ELSE [New(Arr(1, o.dtype, ButLast(o.data)), Arr(1, o.dtype, Rest(o.data)), c)
            EXCEPT !.offsets = o]

\* fromcounts: the prefix sums of the flattened counts, in the counts' shape
Fromcounts(cn, c) ==
    IF AnyNegative(cn) THEN NoObj("ValueError")
    ELSE LET o == counts2offsets(cn.data)
         IN [New(Arr(cn.ndim, "int", ButLast(o)), Arr(cn.ndim, "int", Rest(o)), c)
               EXCEPT !.offsets = IF cn.ndim = 1 THEN Int1(o) ELSE None,
                      !.counts = cn]

RECURSIVE FromiterLoop(_, _, _, _)
\* for x in iterable: offsets.append(offsets[-1] + len(x)); content.extend(x)
FromiterLoop(rows, k, offs, cont) ==
    IF k > Len(rows) THEN <<offs, cont>>
    ELSE FromiterLoop(rows, k + 1,
                      Append(offs, offs[Len(offs)] + Len(rows[k])),
                      cont \o rows[k])

FromiterNoEmpty(rows) ==
    LET kept == SelectSeq(rows, LAMBDA x : x # <<>>)
        oc == FromiterLoop(kept, 1, <<0>>, <<>>)
    IN Fromoffsets(Int1(oc[1]), Arr(1, "int8", oc[2]))

Fromiter(rows) ==
    LET oc == FromiterLoop(rows, 1, <<0>>, <<>>)
    IN Fromoffsets(Int1(oc[1]), Arr(1, "int8", oc[2]))

\* parents -> starts/stops: a row spans its first owned item to one past its
\* last; a row that owns nothing is empty at the stop of the row before it
parents2startsstops(p) ==
    LET n == IF p = <<>> THEN 0 ELSE Max2(SetMax(SeqRange(p)) + 1, 0)
        own(i) == {j \in DOMAIN p : p[j] = i - 1}
        edge(i) ==
            LET prev == {k \in 1..(i - 1) : own(k) # {}}
            IN IF prev = {} THEN 0 ELSE SetMax(own(SetMax(prev)))
    IN <<[i \in 1..n |-> IF own(i) = {} THEN edge(i) ELSE SetMin(own(i)) - 1],
         [i \in 1..n |-> IF own(i) = {} THEN edge(i) ELSE SetMax(own(i))]>>

FromparentsSwapped(p, c) ==
    IF p.ndim # 1 \/ Len(p.data) # Len(c.data) THEN NoObj("ValueError")
    ELSE LET ss == parents2startsstops(p.data)
         IN [New(Int1(ss[2]), Int1(ss[1]), c) EXCEPT !.parents = p]

Fromparents(p, c) ==
    IF p.ndim # 1 \/ Len(p.data) # Len(c.data) THEN NoObj("ValueError")
    ELSE LET ss == parents2startsstops(p.data)
         IN [New(Int1(ss[1]), Int1(ss[2]), c) EXCEPT !.parents = p]

\* the arrays handed to fromcounts and fromoffsets
CountArrays ==
    {Arr(1, "int", d) : d \in SeqsUpTo(MaxRows + 1, (-1)..MaxIdx)} \cup ScalarArrays

OffsetArrays == CountArrays \cup FloatArrays

\* the rows handed to fromiter
RowLists == SeqsUpTo(MaxRows + 1, SeqsUpTo(MaxIdx, {1, 2}))

InitFrom ==
    /\ starts = None
    /\ stops = None
    /\ content = None
    /\ offsets = None
    /\ counts = None
    /\ parents = None
    /\ isvalid = FALSE
    /\ pc = "idle"
    /\ arg = NoArg
    /\ ret = NoCall

\* the class method returned obj, or raised
Built(kind, st, sp, input, obj) ==
    /\ arg' = Arg(kind, st, sp, input)
    /\ IF obj.err # "none"
       THEN /\ ret' = Fail(obj.err)
            /\ pc' = "failed"
            /\ UNCHANGED <<starts, stops, content, offsets, counts, parents, isvalid>>
       ELSE /\ starts' = obj.starts
            /\ stops' = obj.stops
            /\ content' = obj.content
            /\ offsets' = obj.offsets
            /\ counts' = obj.counts
            /\ parents' = obj.parents
            /\ isvalid' = FALSE
            /\ ret' = Returned(<<>>)
            /\ pc' = "built"

FromcountsOp ==
    /\ pc = "idle"
    /\ \E cn \in CountArrays, n \in 0..MaxLen :
        Built("fromcounts", <<>>, <<>>, cn, Fromcounts(cn, Arr(1, "int8", Distinct(n))))

FromoffsetsOp ==
    /\ pc = "idle"
    /\ \E o \in OffsetArrays, n \in 0..MaxLen :
        Built("fromoffsets", <<>>, <<>>, o, Fromoffsets(o, Arr(1, "int8", Distinct(n))))

FromiterOp ==
    /\ pc = "idle"
    /\ \E rows \in RowLists : Built("fromiter", <<>>, <<>>, rows, Fromiter(rows))

NewOp ==
    /\ pc = "idle"
    /\ \E n \in 0..MaxLen, r \in 1..MaxRows :
          \E l \in Layouts(r, MaxLen) :
              Built("new", l[1], l[2], Distinct(n),
                    New(Int1(l[1]), Int1(l[2]), Arr(1, "int8", Distinct(n))))

\* the counts getter: the error it raises and the counts cache it leaves
CountsGet ==
    IF counts # None THEN [err |-> "none", counts |-> counts]
    ELSE IF Valid # "none" THEN [err |-> Valid, counts |-> counts]
    ELSE IF ~CanSubtract(stops.data, starts.data)
    THEN [err |-> "ValueError", counts |-> counts]
    ELSE [err |-> "none",
          counts |-> Arr(1, IF "float" \in {starts.dtype, stops.dtype}
                            THEN "float" ELSE "int",
                         Subtract(stops.data, starts.data))]

\* v.counts of the new view
ReadCounts ==
    /\ pc = "built"
    /\ counts' = CountsGet.counts
    /\ ret' = IF CountsGet.err # "none" THEN Fail(CountsGet.err)
              ELSE Returned(CountsGet.counts.data)
    /\ isvalid' = (isvalid \/ (counts = None /\ Valid = "none"))
    /\ pc' = "counts"
    /\ UNCHANGED <<starts, stops, content, offsets, parents, arg>>

\* v.offsets of the new view
ReadOffsets ==
    /\ pc = "built"
    /\ offsets' = OffsetsGet.offsets
    /\ ret' = IF OffsetsGet.err # "none" THEN Fail(OffsetsGet.err)
              ELSE Returned(OffsetsGet.offsets.data)
    /\ isvalid' = (isvalid \/ (offsets = None /\ Valid = "none"))
    /\ pc' = "offsets"
    /\ UNCHANGED <<starts, stops, content, counts, parents, arg>>

\* list(v): a one-dimensional view yields content[start:stops[i]] per row
IterOp ==
    /\ pc = "built"
    /\ IF Valid # "none"
       THEN /\ ret' = Fail(Valid)
            /\ UNCHANGED isvalid
       ELSE /\ ret' = Returned([i \in DOMAIN starts.data |->
                                   Sl(content.data, starts.data[i], stops.data[i])])
            /\ isvalid' = TRUE
    /\ pc' = "iter"
    /\ UNCHANGED <<starts, stops, content, offsets, counts, parents, arg>>

\* JaggedArray.fromparents(v.parents, v.content)
RebuildOp ==
    /\ pc = "built"
    /\ LET pr == ParentsOf(starts.data, stops.data, Len(content.data))
           e == IF parents # None THEN "none"
                ELSE IF Valid # "none" THEN Valid ELSE pr.err
           p == IF parents # None THEN parents ELSE Int1(pr.content)
           f == Fromparents(p, content)
       IN /\ parents' = IF e = "none" THEN p ELSE parents
          /\ ret' = IF e # "none" THEN Fail(e)
                    ELSE IF f.err # "none" THEN Fail(f.err)
                    ELSE Ok(f.starts.data, f.stops.data, f.content.data)
    /\ offsets' = IF parents # None \/ Valid # "none" THEN offsets ELSE OffsetsGet.offsets
    /\ isvalid' = (isvalid \/ (parents = None /\ Valid = "none"))
    /\ pc' = "rebuilt"
    /\ UNCHANGED <<starts, stops, content, counts, arg>>

NextFrom ==
    \/ FromcountsOp
    \/ FromoffsetsOp
    \/ FromiterOp
    \/ NewOp
    \/ ReadCounts
    \/ ReadOffsets
    \/ IterOp
    \/ RebuildOp

SpecFrom == InitFrom /\ [][NextFrom]_vars

RECURSIVE SumTo(_, _)
\* c[1] + ... + c[k]
SumTo(c, k) == IF k = 0 THEN 0 ELSE SumTo(c, k - 1) + c[k]

NonDecreasing(d) == \A i \in 1..(Len(d) - 1) : d[i] <= d[i + 1]

\* C17: fromcounts(counts, content) of non-negative counts and a content of
\* at least sum(counts) items is built, reads counts back as given and has
\* starts and stops at the prefix sums with a leading 0; fromoffsets(offsets,
\* c) of one-dimensional, non-negative, non-decreasing offsets is built,
\* reads offsets back as given and has starts = offsets[:-1] and
\* stops = offsets[1:].
C17_CountsOffsetsRoundTrip ==
    /\ (/\ arg.kind = "fromcounts"
        /\ ~AnyNegative(arg.content)
        /\ SumTo(arg.content.data, Len(arg.content.data)) <= Len(content.data))
       => /\ pc # "failed"
          /\ starts.data = [i \in DOMAIN arg.content.data |->
                               SumTo(arg.content.data, i - 1)]
          /\ stops.data = [i \in DOMAIN arg.content.data |->
                              SumTo(arg.content.data, i)]
          /\ pc = "counts" => /\ ret = Returned(arg.content.data)
                              /\ counts = arg.content
    /\ (/\ arg.kind = "fromoffsets"
        /\ arg.content.ndim = 1
        /\ ~AnyNegative(arg.content)
        /\ NonDecreasing(arg.content.data))
       => /\ pc # "failed"
          /\ starts.data = ButLast(arg.content.data)
          /\ stops.data = Rest(arg.content.data)
          /\ pc = "offsets" => /\ ret = Returned(arg.content.data)
                               /\ offsets = arg.content

\* C17 witness: counts [2, 0, 1] have been read back from fromcounts
C17_Witness ==
    /\ pc = "counts"
    /\ arg.kind = "fromcounts"
    /\ arg.content.data = <<2, 0, 1>>
    /\ ret = Returned(<<2, 0, 1>>)
    /\ starts.data = <<0, 2, 2>>
    /\ stops.data = <<2, 2, 3>>

RECURSIVE Concat(_)
\* the rows one after the other
Concat(rows) == IF rows = <<>> THEN <<>> ELSE Head(rows) \o Concat(Tail(rows))

\* C18: fromiter(rows) is built with len(rows) rows, a content that is the
\* rows one after the other and offsets that are the running sums of the row
\* lengths from 0; iterating it yields rows[i] as row i.
C18_FromiterRoundTrip ==
    arg.kind = "fromiter"
    => /\ pc # "failed"
       /\ Len(starts.data) = Len(arg.content)
       /\ content.data = Concat(arg.content)
       /\ offsets.data = [i \in 1..(Len(arg.content) + 1) |->
                             Len(Concat(SubSeq(arg.content, 1, i - 1)))]
       /\ pc = "offsets" => ret = Returned(offsets.data)
       /\ pc = "iter" => ret = Returned(arg.content)

\* C18 witness: rows with an empty row between two others have been
\* iterated
C18_Witness ==
    /\ pc = "iter"
    /\ arg.kind = "fromiter"
    /\ arg.content = <<<<1, 2>>, <<>>, <<2>>>>
    /\ ret = Returned(<<<<1, 2>>, <<>>, <<2>>>>)

\* the rebuilt view has the starts and stops of the original at every row of
\* the original that holds an item
RebuiltMatches ==
    /\ ret.err = "none"
    /\ \A i \in DOMAIN starts.data :
          starts.data[i] < stops.data[i]
          => /\ i <= Len(ret.starts)
             /\ ret.starts[i] = starts.data[i]
             /\ ret.stops[i] = stops.data[i]

WithinContent == \A i \in DOMAIN stops.data : stops.data[i] <= Len(content.data)

MaxBytes == 4

ItemSizes == {1, 2, 3, 4, 8}

\* _divitemsize: a shift for the widths 2, 4 and 8, a floor division otherwise
Divitemsize(x, w) ==
    IF w = 1 THEN x
    ELSE IF w = 2 THEN x \div 2
    ELSE IF w = 4 THEN x \div 4
    ELSE IF w = 8 THEN x \div 8
    ELSE x \div w

\* (self._divitemsize(self.counts) * itemsize != self.counts).all()
NoCountDivides(c, w) == \A k \in DOMAIN c : Divitemsize(c[k], w) * w # c[k]

\* ByteJaggedArray._valid: the error it raises, the flag and the counts
\* cache it leaves.  JaggedArray._valid sets the flag before the counts are
\* read.
ByteValid(w) ==
    IF isvalid THEN [err |-> "none", isvalid |-> TRUE, counts |-> counts]
    ELSE IF Valid # "none" THEN [err |-> Valid, isvalid |-> FALSE, counts |-> counts]
    ELSE IF CountsGet.err # "none"
    THEN [err |-> CountsGet.err, isvalid |-> TRUE, counts |-> counts]
    ELSE IF ~NoCountDivides(CountsGet.counts.data, w)
    THEN [err |-> "ValueError", isvalid |-> TRUE, counts |-> CountsGet.counts]
    ELSE [err |-> "none", isvalid |-> TRUE, counts |-> CountsGet.counts]

\* the byte positions handed in as starts and stops
BytePairs ==
    {<<Int1(st), Int1(sp)>> :
        <<st, sp>> \in UNION {[1..r -> 0..MaxBytes] \X [1..r -> 0..MaxBytes] :
                                r \in 0..MaxRows}}
    \cup {<<a, b>> : <<a, b>> \in ScalarArrays \X ScalarArrays}

\* the fields JaggedArray.__init__ has set, and the subdtype of the call
InitByte ==
    /\ \E p \in BytePairs :
          /\ starts = p[1]
          /\ stops = p[2]
    /\ content = Arr(1, "uint8", [j \in 1..MaxBytes |-> 0])
    /\ offsets = None
    /\ counts = None
    /\ parents = None
    /\ isvalid = FALSE
    /\ pc = "idle"
    /\ arg \in {Arg("subdtype", <<>>, <<>>, <<w>>) : w \in ItemSizes}
    /\ ret = NoCall

\* ByteJaggedArray.__init__ after JaggedArray.__init__: the subdtype setter
\* calls numpy.subdtype, a name numpy does not have
ByteNewOp ==
    /\ pc = "idle"
    /\ arg' = Arg("bytenew", <<>>, <<>>, arg.content)
    /\ ret' = Fail("AttributeError")
    /\ pc' = "failed"
    /\ UNCHANGED <<starts, stops, content, offsets, counts, parents, isvalid>>

\* len(b) of an object whose _subdtype has arg.content[1] bytes per item
ByteLenOp ==
    /\ pc = "idle"
    /\ arg' = Arg("bytelen", <<>>, <<>>, arg.content)
    /\ LET v == ByteValid(arg.content[1])
       IN /\ ret' = IF v.err # "none" THEN Fail(v.err)
                    ELSE Returned(<<Len(starts.data)>>)
          /\ isvalid' = v.isvalid
          /\ counts' = v.counts
    /\ pc' = "validated"
    /\ UNCHANGED <<starts, stops, content, offsets, parents>>

NextByte ==
    \/ ByteNewOp
    \/ ByteLenOp

SpecByte == InitByte /\ [][NextByte]_vars

\* every row's byte span is a multiple of w
SpansDivide(w) ==
    \A i \in DOMAIN starts.data : (stops.data[i] - starts.data[i]) % w = 0

\* C20: validation of a ByteJaggedArray succeeds exactly when the base
\* validation succeeds and every row's byte span stop - start is a multiple
\* of the item width; it raises ValueError when the base validation succeeds
\* and some span is not a multiple.
C20_ByteValidityRule ==
    pc = "validated"
    => /\ ret.err = "none"
          <=> (Validstartsstops(starts, stops) = "none" /\ SpansDivide(arg.content[1]))
       /\ (Validstartsstops(starts, stops) = "none" /\ ~SpansDivide(arg.content[1]))
          => ret.err = "ValueError"

\* C21: a read of offsets, counts or parents leaves starts, stops and
\* content unchanged and changes no cache other than the one of the
\* representation read.
C21_ReadsLeaveOtherCaches ==
    [][arg'.kind \in {"offsets", "counts", "parents"}
       => /\ UNCHANGED <<starts, stops, content>>
          /\ arg'.kind # "offsets" => UNCHANGED offsets
          /\ arg'.kind # "counts" => UNCHANGED counts
          /\ arg'.kind # "parents" => UNCHANGED parents]_vars

(***************************************************************************)
(* copy and deepcopy.  A second view is [starts, stops, content, offsets,  *)
(* counts, parents, isvalid, shared]: its six fields, and the names of the *)
(* fields that are the same buffer object as the first view's.  ret holds  *)
(* the second view.                                                        *)
(***************************************************************************)
Fields == {"starts", "stops", "content", "offsets", "counts", "parents"}

\* the value an in-place write stores: no buffer holds it before
Mark == CHOOSE x \in {7} : TRUE

Field(f) ==
    CASE f = "starts" -> starts
      [] f = "stops" -> stops
      [] f = "content" -> content
      [] f = "offsets" -> offsets
      [] f = "counts" -> counts
      [] f = "parents" -> parents

Second(st, sp, c, o, cn, p, iv, sh) ==
    [err |-> "none", starts |-> st, stops |-> sp, content |-> c, offsets |-> o,
     counts |-> cn, parents |-> p, isvalid |-> iv, shared |-> sh]

CopyFreshContent ==
    Second(starts, stops, content, offsets, counts, parents, isvalid,
           {f \in Fields \ {"content"} : Field(f) # None})

\* self.copy(): every field of the new view is the object the original holds
Copy ==
    Second(starts, stops, content, offsets, counts, parents, isvalid,
           {f \in Fields : Field(f) # None})

\* self.deepcopy(): the copy, every field replaced by awkward.util.deepcopy
\* of it
Deepcopy == [Copy EXCEPT !.shared = {}]

\* out.starts = value, out.stops = value, out.content = value on a second
\* view: the setter binds the field to the array given and empties caches
SetSecond(v, f, value) ==
    IF f \in {"starts", "stops"}
    THEN IF AnyNegative(value) THEN [v EXCEPT !.err = "ValueError"]
         ELSE [v EXCEPT ![f] = value, !.offsets = None, !.counts = None,
                        !.parents = None, !.isvalid = FALSE, !.err = "none",
                        !.shared = @ \ {f, "offsets", "counts", "parents"}]
    ELSE [v EXCEPT !.content = value, !.isvalid = FALSE, !.err = "none",
                   !.shared = @ \ {"content"}]

\* a[k] = x on a numpy array, in place
Poke(a, k, x) == [a EXCEPT !.data[k] = x]

\* the caches have been read before the copy is taken
ReadAllOp ==
    /\ pc = "idle"
    /\ counts = None
    /\ arg' = Arg("readall", <<>>, <<>>, <<>>)
    /\ counts' = CountsRead
    /\ parents' = ParentsRead
    /\ offsets' = OffsetsRead
    /\ isvalid' = TRUE
    /\ UNCHANGED <<starts, stops, content, pc, ret>>

CopyOp ==
    /\ pc = "idle"
    /\ arg' = Arg("copy", <<>>, <<>>, <<>>)
    /\ ret' = Copy
    /\ pc' = "copied"
    /\ UNCHANGED <<starts, stops, content, offsets, counts, parents, isvalid>>

\* self.copy(starts=value), self.copy(stops=value), self.copy(content=value)
CopyWithOp ==
    /\ pc = "idle"
    /\ \E f \in {"starts", "stops", "content"} :
       \E value \in (IF f = "content" THEN Contents ELSE IntArrays) :
          /\ arg' = Arg("copywith", <<>>, <<>>, <<f>>)
          /\ ret' = SetSecond(Copy, f, value)
          /\ pc' = IF ret'.err = "none" THEN "copied" ELSE "failed"
    /\ UNCHANGED <<starts, stops, content, offsets, counts, parents, isvalid>>

DeepcopyOp ==
    /\ pc = "idle"
    /\ arg' = Arg("deepcopy", <<>>, <<>>, <<>>)
    /\ ret' = Deepcopy
    /\ pc' = "deepcopied"
    /\ UNCHANGED <<starts, stops, content, offsets, counts, parents, isvalid>>

\* a setter of the second view
SetSecondOp ==
    /\ pc \in {"copied", "deepcopied"}
    /\ arg.kind \in {"copy", "deepcopy"}
    /\ \E f \in {"starts", "stops", "content"} :
       \E value \in (IF f = "content" THEN Contents ELSE IntArrays) :
          /\ arg' = Arg("setsecond", <<>>, <<>>, <<f>>)
          /\ ret' = SetSecond(ret, f, value)
    /\ UNCHANGED <<starts, stops, content, offsets, counts, parents, isvalid, pc>>

\* first.f[k] = Mark, in place: the second view sees it where it holds the
\* same buffer
PokeFirstOp ==
    /\ pc \in {"copied", "deepcopied"}
    /\ arg.kind # "pokefirst" /\ arg.kind # "pokesecond"
    /\ \E f \in Fields :
       \E k \in DOMAIN Field(f).data :
          /\ arg' = Arg("pokefirst", <<>>, <<>>, <<f>>)
          /\ starts' = IF f = "starts" THEN Poke(starts, k, Mark) ELSE starts
          /\ stops' = IF f = "stops" THEN Poke(stops, k, Mark) ELSE stops
          /\ content' = IF f = "content" THEN Poke(content, k, Mark) ELSE content
          /\ offsets' = IF f = "offsets" THEN Poke(offsets, k, Mark) ELSE offsets
          /\ counts' = IF f = "counts" THEN Poke(counts, k, Mark) ELSE counts
          /\ parents' = IF f = "parents" THEN Poke(parents, k, Mark) ELSE parents
          /\ ret' = IF f \in ret.shared THEN [ret EXCEPT ![f] = Poke(@, k, Mark)]
                    ELSE ret
    /\ UNCHANGED <<isvalid, pc>>

\* second.f[k] = Mark, in place
PokeSecondOp ==
    /\ pc \in {"copied", "deepcopied"}
    /\ arg.kind # "pokefirst" /\ arg.kind # "pokesecond"
    /\ \E f \in Fields :
       \E k \in DOMAIN ret[f].data :
          /\ arg' = Arg("pokesecond", <<>>, <<>>, <<f>>)
          /\ ret' = [ret EXCEPT ![f] = Poke(@, k, Mark)]
          /\ starts' = IF f = "starts" /\ f \in ret.shared
                       THEN Poke(starts, k, Mark) ELSE starts
          /\ stops' = IF f = "stops" /\ f \in ret.shared
                      THEN Poke(stops, k, Mark) ELSE stops
          /\ content' = IF f = "content" /\ f \in ret.shared
                        THEN Poke(content, k, Mark) ELSE content
          /\ offsets' = IF f = "offsets" /\ f \in ret.shared
                        THEN Poke(offsets, k, Mark) ELSE offsets
          /\ counts' = IF f = "counts" /\ f \in ret.shared
                       THEN Poke(counts, k, Mark) ELSE counts
          /\ parents' = IF f = "parents" /\ f \in ret.shared
                        THEN Poke(parents, k, Mark) ELSE parents
    /\ UNCHANGED <<isvalid, pc>>

NextCopy ==
    \/ ReadAllOp
    \/ CopyOp
    \/ CopyWithOp
    \/ DeepcopyOp
    \/ SetSecondOp
    \/ PokeFirstOp
    \/ PokeSecondOp

SpecCopy == InitOps /\ [][NextCopy]_vars

CanonicalVars == <<starts, stops, content, offsets, counts, parents>>

\* C22: after copy() an in-place write to the content through one view shows
\* through the other, and a setter of the copy changes nothing of the
\* original; after deepcopy() an in-place write to any buffer of one view
\* changes nothing of the other.
C22_CopySharesDeepcopyIsolates ==
    [][/\ (/\ pc = "copied"
           /\ arg.kind = "copy" \/ (arg.kind = "copywith" /\ arg.content # <<"content">>)
           /\ arg'.kind \in {"pokefirst", "pokesecond"}
           /\ arg'.content = <<"content">>)
          => (content' = ret'.content /\ content' # content)
       /\ arg'.kind = "setsecond" => UNCHANGED CanonicalVars
       /\ (pc = "deepcopied" /\ arg'.kind = "pokefirst") => ret' = ret
       /\ (pc = "deepcopied" /\ arg'.kind = "pokesecond")
          => UNCHANGED CanonicalVars]_vars

\* C22 witness: a write to the content through the copy shows in the
\* original
C22_Witness ==
    /\ pc = "copied"
    /\ arg.kind = "pokesecond"
    /\ arg.content = <<"content">>
    /\ "content" \in ret.shared
    /\ content.data[1] = Mark
    /\ ret.content.data[1] = Mark

(***************************************************************************)
(* _tojagged with the view's own starts and stops as the target.           *)
(***************************************************************************)
\* _tojagged(starts, stops, copy): the view returned and whether its content
\* is the buffer of v; same tells that starts and stops are the very arrays
\* v holds
TojaggedShares(v, ts, tp, same, copy) ==
    LET r == Tojagged(v, ts, tp)
    IN IF r.err # "none" THEN [view |-> r, shares |-> FALSE]
       ELSE IF ~copy /\ same
       THEN [view |-> Ok(v.starts, v.stops, v.content), shares |-> TRUE]
       ELSE IF ArrayEqual(ts, v.starts) /\ ArrayEqual(tp, v.stops)
       THEN [view |-> r, shares |-> ~copy]
       ELSE [view |-> r, shares |-> FALSE]

\* v._tojagged(v.starts, v.stops, copy) and v._tojagged(s, t, copy) for
\* arrays s, t equal to v.starts, v.stops
TojaggedIdentityOp ==
    /\ pc = "idle"
    /\ \E same \in BOOLEAN, copy \in BOOLEAN :
          /\ arg' = Arg("identity", <<same>>, <<copy>>, <<>>)
          /\ ret' = TojaggedShares(Self, starts.data, stops.data, same, copy)
    /\ counts' = CountsRead
    /\ isvalid' = TRUE
    /\ pc' = "done"
    /\ UNCHANGED <<starts, stops, content, offsets, parents>>

NextIdentity ==
    \/ TojaggedIdentityOp
    \/ TojaggedOp

SpecIdentity == InitOps /\ [][NextIdentity]_vars

\* C23: v._tojagged(v.starts, v.stops) returns a view with the starts and
\* stops of v whose every row equals the row of v, for every layout; with
\* copy=False its content is the buffer of v, with copy=True it is not.
C23_IdentityRelayout ==
    (pc = "done" /\ arg.kind = "identity")
    => /\ ret.view.err = "none"
       /\ ret.view.starts = starts.data
       /\ ret.view.stops = stops.data
       /\ \A i \in 1..NRows :
             Row(ret.view.content, ret.view.starts, ret.view.stops, i)
                = Row(content.data, starts.data, stops.data, i)
       /\ ret.shares <=> ~arg.stops[1]

\* C23 witness: two overlapping rows out of order, relaid out onto
\* themselves with copy=True
C23_Witness ==
    /\ pc = "done"
    /\ arg.kind = "identity"
    /\ arg.stops = <<TRUE>>
    /\ starts.data = <<1, 0>>
    /\ stops.data = <<3, 2>>
    /\ ret.view.content = <<10, 20, 30>>
    /\ ~ret.shares

\* C24: on an offset-contiguous view (any first start, content possibly
\* longer than the last stop, empty rows anywhere) sum(), prod(), min() and
\* max() raise nothing and return, per row, the reduction of
\* content[start:stop], the operator's identity for an empty row.
C24_FastPathAgrees ==
    (arg.kind \in {"sum", "prod", "min", "max"} /\ Canuseoffset(Self))
    => /\ ret.err = "none"
       /\ Len(ret.content) = NRows
       /\ \A i \in 1..NRows :
             ret.content[i]
                = RowReduce(arg.kind, ReduceDtype(arg.kind, content.dtype),
                            Row(content.data, starts.data, stops.data, i))

\* C25: in every reachable state a populated counts cache is stops - starts,
\* a populated offsets cache has offsets[:-1] = starts and offsets[1:] =
\* stops, and a populated parents cache has len(content) entries, with
\* parents[j] = i only if starts[i] <= j < stops[i].
C25_CacheCoherence ==
    /\ counts # None
       => /\ CanSubtract(stops.data, starts.data)
          /\ counts.data = Subtract(stops.data, starts.data)
    /\ offsets # None
       => /\ ButLast(offsets.data) = starts.data
          /\ Rest(offsets.data) = stops.data
    /\ parents # None
       => /\ Len(parents.data) = Len(content.data)
          /\ \A j \in DOMAIN parents.data :
                parents.data[j] >= 0
                => /\ parents.data[j] + 1 \in DOMAIN starts.data
                   /\ parents.data[j] + 1 \in DOMAIN stops.data
                   /\ starts.data[parents.data[j] + 1] <= j - 1
                   /\ j - 1 < stops.data[parents.data[j] + 1]

(***************************************************************************)
(* argcross and cross: the pairs of items of two views, row by row.        *)
(***************************************************************************)
ArgcrossDividesByOwn(a, b) ==
    IF Len(a.starts) # Len(b.starts) THEN [err |-> "ValueError"]
    ELSE LET ca == Diff(a.stops, a.starts)
             cb == Diff(b.stops, b.starts)
             o == counts2offsets([i \in DOMAIN ca |-> ca[i] * cb[i]])
             total == o[Len(o)]
             p == offsets2parents(o, total)
             local(q) == (q - 1) - o[p[q] + 1]
         IN [err |-> "none", offsets |-> o, parents |-> p,
             left |-> [q \in 1..total |->
                          a.starts[p[q] + 1] + (local(q) \div ca[p[q] + 1])],
             right |-> [q \in 1..total |->
                           b.starts[p[q] + 1] + local(q)
                              - ca[p[q] + 1] * (local(q) \div ca[p[q] + 1])]]

\* argcross: per pair the position of its left item in self's content and
\* of its right item in other's
Argcross(a, b) ==
    IF Len(a.starts) # Len(b.starts) THEN [err |-> "ValueError"]
    ELSE LET ca == Diff(a.stops, a.starts)
             cb == Diff(b.stops, b.starts)
             o == counts2offsets([i \in DOMAIN ca |-> ca[i] * cb[i]])
             total == o[Len(o)]
             p == offsets2parents(o, total)
             local(q) == (q - 1) - o[p[q] + 1]
         IN [err |-> "none", offsets |-> o, parents |-> p,
             left |-> [q \in 1..total |->
                          a.starts[p[q] + 1] + (local(q) \div cb[p[q] + 1])],
             right |-> [q \in 1..total |->
                           b.starts[p[q] + 1] + local(q)
                              - cb[p[q] + 1] * (local(q) \div cb[p[q] + 1])]]

\* cross: the view over the table of self.content[left], other.content[right]
Cross(a, b) ==
    LET ac == Argcross(a, b)
    IN IF ac.err # "none" THEN Fail(ac.err)
       ELSE IF ~FancyOK(a.content, ac.left) \/ ~FancyOK(b.content, ac.right)
       THEN Fail("IndexError")
       ELSE Ok(ButLast(ac.offsets), Rest(ac.offsets),
               [q \in DOMAIN ac.left |->
                   <<FancyGet(a.content, ac.left)[q], FancyGet(b.content, ac.right)[q]>>])

\* the items of the other view: 1, 2, ..., apart from self's 10, 20, ...
Units(n) == [j \in 1..n |-> j]

\* self.cross(other)
CrossOp ==
    /\ pc = "idle"
    /\ \E n \in 0..MaxLen, r \in 1..MaxRows :
          \E l \in Layouts(r, n) :
              /\ arg' = Arg("cross", l[1], l[2], Units(n))
              /\ ret' = Cross(Self, View(l[1], l[2], Units(n), "int8"))
    /\ counts' = IF Len(arg'.starts) = NRows THEN CountsRead ELSE counts
    /\ isvalid' = TRUE
    /\ pc' = "done"
    /\ UNCHANGED <<starts, stops, content, offsets, parents>>

\* JaggedArray.aligned(first, next) for two views of one row count that hold
\* separate starts and stops arrays: the rows that are not empty in first
\* must have the same start and the same stop in next
Aligned(first, next) ==
    LET relevant == [i \in DOMAIN first.starts |-> first.stops[i] - first.starts[i] # 0]
    IN /\ ArrayEqual(MaskGet(first.starts, relevant), MaskGet(next.starts, relevant))
       /\ ArrayEqual(MaskGet(first.stops, relevant), MaskGet(next.stops, relevant))

\* JaggedArray.aligned(self, other) and JaggedArray.aligned(other, self)
AlignedOp ==
    /\ pc = "idle"
    /\ \E n \in 0..MaxLen :
          \E l \in Layouts(NRows, n) :
              LET other == View(l[1], l[2], Units(n), "int8")
              IN /\ arg' = Arg("aligned", l[1], l[2], Units(n))
                 /\ ret' = Returned(<<Aligned(Self, other), Aligned(other, Self)>>)
    /\ counts' = CountsRead
    /\ isvalid' = TRUE
    /\ pc' = "done"
    /\ UNCHANGED <<starts, stops, content, offsets, parents>>

NextCross ==
    \/ CrossOp
    \/ AlignedOp

SpecCross == InitOps /\ [][NextCross]_vars

\* C26: a.cross(b) of views with the same number of rows has that number of
\* rows; row i holds counts_a[i] * counts_b[i] pairs, the pair at position
\* j * counts_b[i] + k being (a[i][j], b[i][k]), for any layout of a and b;
\* views with different numbers of rows are refused with ValueError.
C26_CrossPairs ==
    (pc = "done" /\ arg.kind = "cross")
    => IF Len(arg.starts) # NRows THEN ret.err = "ValueError"
       ELSE /\ ret.err = "none"
            /\ Len(ret.starts) = NRows
            /\ Len(ret.stops) = NRows
            /\ \A i \in 1..NRows :
                  LET ra == Row(content.data, starts.data, stops.data, i)
                      rb == Row(arg.content, arg.starts, arg.stops, i)
                      rc == Row(ret.content, ret.starts, ret.stops, i)
                  IN /\ ret.stops[i] - ret.starts[i] = Len(ra) * Len(rb)
                     /\ Len(rc) = Len(ra) * Len(rb)
                     /\ \A j \in 0..(Len(ra) - 1), k \in 0..(Len(rb) - 1) :
                           rc[j * Len(rb) + k + 1] = <<ra[j + 1], rb[k + 1]>>

\* C26 witness: a row of two items crossed with a row of three
C26_Witness ==
    /\ pc = "done"
    /\ arg.kind = "cross"
    /\ starts.data = <<1>>
    /\ stops.data = <<3>>
    /\ arg.starts = <<0>>
    /\ arg.stops = <<3>>
    /\ ret.content = <<<<20, 1>>, <<20, 2>>, <<20, 3>>, <<30, 1>>, <<30, 2>>, <<30, 3>>>>

\* C27: a view built by the constructor or left by a setter that has passed
\* validation has starts[i] <= stops[i] in every row, so that no count is
\* negative.
C27_NonNegativeRowLengths ==
    isvalid
    => \A i \in DOMAIN starts.data \cap DOMAIN stops.data :
          starts.data[i] <= stops.data[i]

\* C28: for two views a, b of one row count aligned(a, b) = aligned(b, a),
\* and aligned(a, b) is True only if a and b have the same count in every
\* row.
C28_AlignedSymmetric ==
    (pc = "done" /\ arg.kind = "aligned")
    => /\ ret.content[1] = ret.content[2]
       /\ ret.content[1]
          => \A i \in 1..NRows :
                stops.data[i] - starts.data[i] = arg.stops[i] - arg.starts[i]

\* ---------------------------------------------------------------------------
\* Boolean jagged indexing of long rows: rows around the 2^8 items at which an
\* 8-bit sum would wrap.
\* ---------------------------------------------------------------------------

\* the number of values of an 8-bit unsigned integer
Byte == 2 * (Int8Max + 1)

\* the row lengths: empty, one item, and the lengths around Byte
LongLens == {0, 1} \cup ((Byte - 1)..(Byte + MaxOff))

\* the positions at which a mask of n items may hold False
Holes(n) == {1, 2, n} \cap (1..n)

\* the masks of n items that are True outside Holes(n)
LongMasks(n) ==
    {[k \in 1..n |-> IF k \in h THEN 0 ELSE 1] : h \in SUBSET Holes(n)}

\* a contiguous view with rows of LongLens items, its first row at position
\* 0 or further into the content
InitLong ==
    /\ \E r \in 1..MaxRows, s0 \in 0..MaxOff :
          \E cs \in [1..r -> LongLens] :
              LET o == counts2offsets(cs)
              IN /\ starts = Int1([i \in 1..r |-> o[i] + s0])
                 /\ stops = Int1([i \in 1..r |-> o[i + 1] + s0])
                 /\ content = Arr(1, "int8", Distinct(o[r + 1] + s0))
    /\ offsets = None
    /\ counts = None
    /\ parents = None
    /\ isvalid = FALSE
    /\ pc = "idle"
    /\ arg = NoArg
    /\ ret = NoCall

\* v[m], m = JaggedArray.fromcounts(v.counts, mask) for a boolean mask
GetitemLongOp ==
    /\ pc = "idle"
    /\ LET cs == Diff(stops.data, starts.data)
           o == counts2offsets(cs)
       IN \E c \in LongMasks(o[NRows + 1]) :
              /\ arg' = Arg("getlong", ButLast(o), Rest(o), c)
              /\ ret' = GetitemBool(Self, View(ButLast(o), Rest(o), c, "bool"))
    /\ offsets' = OffsetsRead
    /\ counts' = IF Canuseoffset(Self) THEN counts ELSE CountsRead
    /\ parents' = IF Canuseoffset(Self) THEN parents ELSE ParentsRead
    /\ isvalid' = TRUE
    /\ pc' = "done"
    /\ UNCHANGED <<starts, stops, content>>

NextLong == GetitemLongOp

SpecLong == InitLong /\ [][NextLong]_vars

\* the number of True values in row i of the mask the call was given
TrueCount(i) ==
    Cardinality({k \in (arg.starts[i] + 1)..arg.stops[i] : arg.content[k] = 1})

=============================================================================
